---------------------------- MODULE Spec2Model ----------------------------
(***************************************************************************)
(* Cherry-pick planning scripts of llxprt-code (project-plans/):           *)
(*   - 20260104gmerge/generate_plan_artifacts.py : build_batches           *)
(*   - 20251215gemerge/generate_cherries.py      : OVERRIDES, decide       *)
(*   - 20260104gmerge/generate_cherries.py       : PICKS/REIMPL,           *)
(*                                                 decision_for            *)
(* Strings that the code inspects (subjects, file paths) are sequences of  *)
(* one-character strings, so that lower(), startswith() and "in" are       *)
(* computed; strings that are only passed around stay TLA+ strings.        *)
(***************************************************************************)
EXTENDS Integers, Sequences, FiniteSets, TLC

VARIABLES
    commits,    \* build_batches: the commits argument (list of Commit)
    picks,      \* build_batches: the picks argument (set of short ids)
    reimpl,     \* build_batches: the reimpl argument (set of short ids)
    batches,    \* build_batches: local list of {"type", "commits"} dicts
    current,    \* build_batches: local list, the open PICK group
    i,          \* build_batches: number of commits the for loop has consumed
    pc,         \* generate_plan_artifacts main: "loop" (in build_batches),
                \* "done" (build_batches returned); in the run of main:
                \* "main" (inventory and tables loaded), "done", then
                \* "plan", "progress", "notes", "audit", "playbooks" (that
                \* writer has returned); "idle" elsewhere
    plan_rows,  \* write_plan: the rows of the Batch Schedule table
    progress_rows,  \* write_progress: the lines of the Batch Checklist
    progress_total, \* write_progress: the N of "| **Progress** | 0/N (0%) |"
    audit_rows, \* write_audit: the rows of the Full Upstream Table
    playbooks,  \* write_playbooks: the <short>-plan.md paths written, in order
    cur_commit, \* classifier: the inventory record being classified
    cur_override, \* classifier: what decide(commit) returned
    cur_decision, \* classifier: what decision_for(commit["short"]) returned
    called,     \* classifier: the functions that have returned
    pick_rows,  \* 20260104 generate_cherries main: rows of the PICK table
    reimpl_rows,    \* ... of the REIMPLEMENT table
    skip_rows,      \* ... of the SKIP table
    summary_lines,  \* ... the commit lines of SUMMARY.md, by section
    generator,  \* a run of a main: which of the three scripts runs
    inventory_file, \* a run of a main: state of the file at DATA_PATH
    records,    \* a run of a main: the records of the inventory file
    classified, \* a run of a main: number of records classified so far
    written,    \* a run of a main: the output files written, in order
    error,      \* a run of a main: the exception that ended it, or ""
    rows,       \* 20251215 generate_cherries main: (idx, commit, override)
    lines,      \* ... the rows of the Full Commit Table of CHERRIES.md
    counts      \* the decision counts of a cherries generator's main

batchVars == <<commits, picks, reimpl, batches, current, i, pc>>
artifactVars == <<plan_rows, progress_rows, progress_total, audit_rows, playbooks>>
classifyVars == <<cur_commit, cur_override, cur_decision, called>>
summaryVars == <<pick_rows, reimpl_rows, skip_rows, summary_lines>>
mainVars == <<generator, inventory_file, records, classified, written, error>>
tableVars == <<rows, lines, counts>>
reportVars == <<summaryVars, mainVars, tableVars>>

-----------------------------------------------------------------------------
(* Bounds of the explored inputs                                           *)

\* longest inventory handed to build_batches
MaxCommits == 6

\* longest inventory of a run of the plan-artifact generator's main
MaxArtifactCommits == 5

\* short ids of non-solo inventory commits, by inventory position
PlainShorts ==
    <<"4f17eae5", "d38ab079", "2e6d69c9", "47f69317",
      "8c1656bf", "cfaa95a2", "60420e52", "a9083b9d">>

\* solo ids that may occur in an inventory, in their order of occurrence
SoloOrder == <<"3a1d3769", "2ef38065">>

\* ids that the explored tables may list in picks and in reimpl at once
BothShorts == {"3a1d3769", "4f17eae5"}

-----------------------------------------------------------------------------
(* generate_plan_artifacts.py                                              *)

\* build_batches: the solo_picks literal
solo_picks == {"3a1d3769", "2ef38065", "23e52f0f", "847c6e7f", "ce40a653"}

\* Commit dataclass, restricted to the field build_batches reads
Commit(short) == [short |-> short]

\* batches.append({"type": t, "commits": cs})
Batch(t, cs) == [type |-> t, commits |-> cs]

\* build_batches_body with the flush before a REIMPLEMENT batch forgotten
body_reimpl_without_flush(st, commit, pks, rmp, solo) ==
    IF commit.short \in pks
    THEN IF commit.short \in solo
         THEN [batches |->
                   (IF st.current # <<>>
                    THEN Append(st.batches, Batch("PICK", st.current))
                    ELSE st.batches)
                   \o <<Batch("PICK", <<commit>>)>>,
               current |-> <<>>]
         ELSE IF Len(st.current) + 1 = 5
              THEN [batches |-> Append(st.batches,
                                       Batch("PICK", Append(st.current, commit))),
                    current |-> <<>>]
              ELSE [batches |-> st.batches,
                    current |-> Append(st.current, commit)]
    ELSE IF commit.short \in rmp
    THEN [batches |-> Append(st.batches, Batch("REIMPLEMENT", <<commit>>)),
          current |-> st.current]
    ELSE st

\* build_batches_body with the solo_picks test left out
body_without_solo_test(st, commit, pks, rmp, solo) ==
    IF commit.short \in pks
    THEN IF Len(st.current) + 1 = 5
         THEN [batches |-> Append(st.batches,
                                  Batch("PICK", Append(st.current, commit))),
               current |-> <<>>]
         ELSE [batches |-> st.batches,
               current |-> Append(st.current, commit)]
    ELSE IF commit.short \in rmp
    THEN [batches |->
              (IF st.current # <<>>
               THEN Append(st.batches, Batch("PICK", st.current))
               ELSE st.batches)
              \o <<Batch("REIMPLEMENT", <<commit>>)>>,
          current |-> <<>>]
    ELSE st

\* build_batches_body with a solo commit emitted without closing the open group
body_solo_without_flush(st, commit, pks, rmp, solo) ==
    IF commit.short \in pks
    THEN IF commit.short \in solo
         THEN [batches |-> Append(st.batches, Batch("PICK", <<commit>>)),
               current |-> st.current]
         ELSE IF Len(st.current) + 1 = 5
              THEN [batches |-> Append(st.batches,
                                       Batch("PICK", Append(st.current, commit))),
                    current |-> <<>>]
              ELSE [batches |-> st.batches,
                    current |-> Append(st.current, commit)]
    ELSE IF commit.short \in rmp
    THEN [batches |->
              (IF st.current # <<>>
               THEN Append(st.batches, Batch("PICK", st.current))
               ELSE st.batches)
              \o <<Batch("REIMPLEMENT", <<commit>>)>>,
          current |-> <<>>]
    ELSE st

\* build_batches_body with the reimpl test made before the picks test
body_reimpl_test_first(st, commit, pks, rmp, solo) ==
    IF commit.short \in rmp
    THEN [batches |->
              (IF st.current # <<>>
               THEN Append(st.batches, Batch("PICK", st.current))
               ELSE st.batches)
              \o <<Batch("REIMPLEMENT", <<commit>>)>>,
          current |-> <<>>]
    ELSE IF commit.short \in pks
    THEN IF commit.short \in solo
         THEN [batches |->
                   (IF st.current # <<>>
                    THEN Append(st.batches, Batch("PICK", st.current))
                    ELSE st.batches)
                   \o <<Batch("PICK", <<commit>>)>>,
               current |-> <<>>]
         ELSE IF Len(st.current) + 1 = 5
              THEN [batches |-> Append(st.batches,
                                       Batch("PICK", Append(st.current, commit))),
                    current |-> <<>>]
              ELSE [batches |-> st.batches,
                    current |-> Append(st.current, commit)]
    ELSE st

\* loop body whose solo test asks whether any picked id is a solo id
body_solo_of_any_pick(st, commit, pks, rmp, solo) ==
    IF commit.short \in pks
    THEN IF pks \cap solo # {}
         THEN [batches |->
                   (IF st.current # <<>>
                    THEN Append(st.batches, Batch("PICK", st.current))
                    ELSE st.batches)
                   \o <<Batch("PICK", <<commit>>)>>,
               current |-> <<>>]
         ELSE IF Len(st.current) + 1 = 5
              THEN [batches |-> Append(st.batches,
                                       Batch("PICK", Append(st.current, commit))),
                    current |-> <<>>]
              ELSE [batches |-> st.batches,
                    current |-> Append(st.current, commit)]
    ELSE IF commit.short \in rmp
    THEN [batches |->
              (IF st.current # <<>>
               THEN Append(st.batches, Batch("PICK", st.current))
               ELSE st.batches)
              \o <<Batch("REIMPLEMENT", <<commit>>)>>,
          current |-> <<>>]
    ELSE st

\* loop body in which a commit that is neither picked nor reimplemented
\* flushes the open group
body_skip_flushes(st, commit, pks, rmp, solo) ==
    IF commit.short \in pks
    THEN IF commit.short \in solo
         THEN [batches |->
                   (IF st.current # <<>>
                    THEN Append(st.batches, Batch("PICK", st.current))
                    ELSE st.batches)
                   \o <<Batch("PICK", <<commit>>)>>,
               current |-> <<>>]
         ELSE IF Len(st.current) + 1 = 5
              THEN [batches |-> Append(st.batches,
                                       Batch("PICK", Append(st.current, commit))),
                    current |-> <<>>]
              ELSE [batches |-> st.batches,
                    current |-> Append(st.current, commit)]
    ELSE IF commit.short \in rmp
    THEN [batches |->
              (IF st.current # <<>>
               THEN Append(st.batches, Batch("PICK", st.current))
               ELSE st.batches)
              \o <<Batch("REIMPLEMENT", <<commit>>)>>,
          current |-> <<>>]
    ELSE [batches |->
              (IF st.current # <<>>
               THEN Append(st.batches, Batch("PICK", st.current))
               ELSE st.batches),
          current |-> <<>>]

\* loop body that appends the full group without rebinding current: the
\* list object stays shared with the appended batch, so later appends to
\* current show in that batch
body_full_group_without_rebind(st, commit, pks, rmp, solo) ==
    IF commit.short \in pks
    THEN IF commit.short \in solo
         THEN [batches |->
                   (IF st.current # <<>>
                    THEN Append(st.batches, Batch("PICK", st.current))
                    ELSE st.batches)
                   \o <<Batch("PICK", <<commit>>)>>,
               current |-> <<>>]
         ELSE IF Len(st.current) >= 5
              THEN [batches |->
                        [st.batches EXCEPT ![Len(st.batches)].commits =
                                               Append(@, commit)],
                    current |-> Append(st.current, commit)]
              ELSE IF Len(st.current) + 1 = 5
              THEN [batches |-> Append(st.batches,
                                       Batch("PICK", Append(st.current, commit))),
                    current |-> Append(st.current, commit)]
              ELSE [batches |-> st.batches,
                    current |-> Append(st.current, commit)]
    ELSE IF commit.short \in rmp
    THEN [batches |->
              (IF st.current # <<>> /\ Len(st.current) < 5
               THEN Append(st.batches, Batch("PICK", st.current))
               ELSE st.batches)
              \o <<Batch("REIMPLEMENT", <<commit>>)>>,
          current |-> <<>>]
    ELSE st

\* loop body that closes the group at four commits
body_flush_at_four(st, commit, pks, rmp, solo) ==
    IF commit.short \in pks
    THEN IF commit.short \in solo
         THEN [batches |->
                   (IF st.current # <<>>
                    THEN Append(st.batches, Batch("PICK", st.current))
                    ELSE st.batches)
                   \o <<Batch("PICK", <<commit>>)>>,
               current |-> <<>>]
         ELSE IF Len(st.current) + 1 = 4
              THEN [batches |-> Append(st.batches,
                                       Batch("PICK", Append(st.current, commit))),
                    current |-> <<>>]
              ELSE [batches |-> st.batches,
                    current |-> Append(st.current, commit)]
    ELSE IF commit.short \in rmp
    THEN [batches |->
              (IF st.current # <<>>
               THEN Append(st.batches, Batch("PICK", st.current))
               ELSE st.batches)
              \o <<Batch("REIMPLEMENT", <<commit>>)>>,
          current |-> <<>>]
    ELSE st

\* loop body whose REIMPLEMENT branch appends the open group and keeps it
body_reimpl_keeps_group(st, commit, pks, rmp, solo) ==
    IF commit.short \in pks
    THEN IF commit.short \in solo
         THEN [batches |->
                   (IF st.current # <<>>
                    THEN Append(st.batches, Batch("PICK", st.current))
                    ELSE st.batches)
                   \o <<Batch("PICK", <<commit>>)>>,
               current |-> <<>>]
         ELSE IF Len(st.current) + 1 = 5
              THEN [batches |-> Append(st.batches,
                                       Batch("PICK", Append(st.current, commit))),
                    current |-> <<>>]
              ELSE [batches |-> st.batches,
                    current |-> Append(st.current, commit)]
    ELSE IF commit.short \in rmp
    THEN [batches |->
              (IF st.current # <<>>
               THEN Append(st.batches, Batch("PICK", st.current))
               ELSE st.batches)
              \o <<Batch("REIMPLEMENT", <<commit>>)>>,
          current |-> st.current]
    ELSE st

\* one iteration of `for commit in commits:` on the locals st = (batches, current);
\* solo is the local solo_picks
build_batches_body(st, commit, pks, rmp, solo) ==
    IF commit.short \in pks
    THEN IF commit.short \in solo
         THEN [batches |->
                   (IF st.current # <<>>
                    THEN Append(st.batches, Batch("PICK", st.current))
                    ELSE st.batches)
                   \o <<Batch("PICK", <<commit>>)>>,
               current |-> <<>>]
         ELSE IF Len(st.current) + 1 = 5
              THEN [batches |-> Append(st.batches,
                                       Batch("PICK", Append(st.current, commit))),
                    current |-> <<>>]
              ELSE [batches |-> st.batches,
                    current |-> Append(st.current, commit)]
    ELSE IF commit.short \in rmp
    THEN [batches |->
              (IF st.current # <<>>
               THEN Append(st.batches, Batch("PICK", st.current))
               ELSE st.batches)
              \o <<Batch("REIMPLEMENT", <<commit>>)>>,
          current |-> <<>>]
    ELSE st

\* the code after the loop: `if current: batches.append(...)`; `return batches`
build_batches_tail(st) ==
    IF st.current # <<>>
    THEN [batches |-> Append(st.batches, Batch("PICK", st.current)),
          current |-> st.current]
    ELSE st

RECURSIVE build_batches_loop(_, _, _, _, _)
\* the locals after the for loop has consumed the commits cs, starting from st
build_batches_loop(st, cs, pks, rmp, solo) ==
    IF cs = <<>> THEN st
    ELSE build_batches_loop(build_batches_body(st, Head(cs), pks, rmp, solo),
                            Tail(cs), pks, rmp, solo)

\* build_batches(commits, picks, reimpl), with the solo_picks local as solo
build_batches_with(cs, pks, rmp, solo) ==
    build_batches_tail(
        build_batches_loop([batches |-> <<>>, current |-> <<>>],
                           cs, pks, rmp, solo)).batches

\* build_batches(commits, picks, reimpl)
build_batches(cs, pks, rmp) == build_batches_with(cs, pks, rmp, solo_picks)

\* PLAN_DIR, relative to ROOT
PLAN_DIR == "project-plans/20260104gmerge"

DigitChars == <<"0", "1", "2", "3", "4", "5", "6", "7", "8", "9">>

RECURSIVE DecimalDigits(_)
\* f"{n}" for a natural number n
DecimalDigits(n) ==
    IF n < 10 THEN <<DigitChars[n + 1]>>
    ELSE Append(DecimalDigits(n \div 10), DigitChars[(n % 10) + 1])

\* f"{idx:02d}": decimal, padded with zeros to two characters
Fmt02d(idx) ==
    IF Len(DecimalDigits(idx)) < 2
    THEN <<"0">> \o DecimalDigits(idx)
    ELSE DecimalDigits(idx)

\* shas = [c.short for c in batch["commits"]]
Shas(batch) == [k \in 1..Len(batch.commits) |-> batch.commits[k].short]

\* verify with the parity test inverted
verify_odd_is_full(idx) == IF idx % 2 = 1 THEN "FULL" ELSE "QUICK"

\* verify = "FULL" if idx % 2 == 0 else "QUICK"
verify_level(idx) == IF idx % 2 = 0 THEN "FULL" ELSE "QUICK"

\* plan_row that numbers the batches from 0 (enumerate without its start)
plan_row_from_zero(idx, batch) ==
    [batch |-> Fmt02d(idx - 1),
     type |-> batch.type,
     shas |-> Shas(batch),
     cmd |-> IF batch.type = "PICK"
             THEN [tool |-> "git cherry-pick", args |-> Shas(batch)]
             ELSE [tool |-> "playbook",
                   args |-> <<PLAN_DIR \o "/" \o Shas(batch)[1] \o "-plan.md">>],
     verify |-> verify_level(idx)]

\* write_plan: the table row of one batch
plan_row(idx, batch) ==
    [batch |-> Fmt02d(idx),
     type |-> batch.type,
     shas |-> Shas(batch),
     cmd |-> IF batch.type = "PICK"
             THEN [tool |-> "git cherry-pick", args |-> Shas(batch)]
             ELSE [tool |-> "playbook",
                   args |-> <<PLAN_DIR \o "/" \o Shas(batch)[1] \o "-plan.md">>],
     verify |-> verify_level(idx)]

\* write_progress: the checklist line of one batch
progress_row(idx, batch) ==
    [batch |-> Fmt02d(idx),
     verify |-> verify_level(idx),
     type |-> batch.type,
     shas |-> Shas(batch)]

\* write_audit decision with the reimpl test made first
audit_decision_reimpl_first(short, pks, rmp) ==
    IF short \in rmp THEN "REIMPLEMENT"
    ELSE IF short \in pks THEN "PICK"
    ELSE "SKIP"

\* write_audit: the decision column
audit_decision(short, pks, rmp) ==
    IF short \in pks THEN "PICK"
    ELSE IF short \in rmp THEN "REIMPLEMENT"
    ELSE "SKIP"

\* write_audit: the table row of one commit
audit_row(idx, commit, pks, rmp) ==
    [idx |-> DecimalDigits(idx),
     upstream |-> commit.short,
     decision |-> audit_decision(commit.short, pks, rmp),
     status |-> "",
     local |-> "",
     notes |-> ""]

\* write_playbooks: the path of the playbook of one commit
playbook_path(commit) == PLAN_DIR \o "/" \o commit.short \o "-plan.md"

\* write_playbooks: the commits that get a playbook
playbook_commits(cs, rmp) == SelectSeq(cs, LAMBDA c : c.short \in rmp)

-----------------------------------------------------------------------------
(* Strings the classifier inspects: sequences of one-character strings     *)

UpperCase == <<"A", "B", "C", "D", "E", "F", "G", "H", "I", "J", "K", "L", "M",
               "N", "O", "P", "Q", "R", "S", "T", "U", "V", "W", "X", "Y", "Z">>
LowerCase == <<"a", "b", "c", "d", "e", "f", "g", "h", "i", "j", "k", "l", "m",
               "n", "o", "p", "q", "r", "s", "t", "u", "v", "w", "x", "y", "z">>

\* str.lower() on one (ASCII) character
LowerChar(c) ==
    IF \E k \in 1..Len(UpperCase) : UpperCase[k] = c
    THEN LowerCase[CHOOSE k \in 1..Len(UpperCase) : UpperCase[k] = c]
    ELSE c

\* subject.lower()
lower(s) == [k \in 1..Len(s) |-> LowerChar(s[k])]

\* s.startswith(prefix)
startswith(s, prefix) ==
    /\ Len(prefix) <= Len(s)
    /\ SubSeq(s, 1, Len(prefix)) = prefix

\* `sub in s` on strings
contains(sub, s) ==
    \E k \in 0..(Len(s) - Len(sub)) : SubSeq(s, k + 1, k + Len(sub)) = sub

\* the string literals of decide
LitClearcutLogger == <<"c", "l", "e", "a", "r", "c", "u", "t", "-", "l", "o", "g", "g", "e", "r">>
LitChoreRelease == <<"c", "h", "o", "r", "e", "(", "r", "e", "l", "e", "a", "s", "e", ")", ":">>
LitFixPatch == <<"f", "i", "x", "(", "p", "a", "t", "c", "h", ")", ":">>
LitPreReleases == <<"p", "r", "e", " ", "r", "e", "l", "e", "a", "s", "e", "s">>
LitRevert == <<"r", "e", "v", "e", "r", "t", " ">>
LitModelRouting == <<"m", "o", "d", "e", "l", " ", "r", "o", "u", "t", "i", "n", "g">>
LitFallback == <<"f", "a", "l", "l", "b", "a", "c", "k">>
LitCodebaseInvestigator == <<"c", "o", "d", "e", "b", "a", "s", "e", " ", "i", "n", "v", "e", "s", "t", "i", "g", "a", "t", "o", "r">>
LitCleanupMarkdown == <<"c", "l", "e", "a", "n", "u", "p", "(", "m", "a", "r", "k", "d", "o", "w", "n", ")">>
LitA2a == <<"a", "2", "a">>
LitPublish == <<"p", "u", "b", "l", "i", "s", "h">>
LitPublishing == <<"p", "u", "b", "l", "i", "s", "h", "i", "n", "g">>

-----------------------------------------------------------------------------
(* 20251215gemerge/generate_cherries.py                                    *)

\* Literal["PICK", "SKIP", "REIMPLEMENT"]
Decision == {"PICK", "SKIP", "REIMPLEMENT"}

\* Override(decision, rationale), the frozen dataclass
Override(decision, rationale) == [decision |-> decision, rationale |-> rationale]

\* what a Python function returns when it ends without a return statement
PyNone == [decision |-> "None", rationale |-> "None"]

\* the entries of the OVERRIDES dict literal, in source order
OverridesSource ==
    <<
      <<"b92e3bca", Override("PICK",
          "MCP: server removal persists to settings")>>,
      <<"1962b51d", Override("PICK",
          "CLI: positional prompt args with --extensions (drop Clearcut test hunk)")>>,
      <<"f2852056", Override("PICK",
          "CLI: strip ANSI codes from extension MCP server output")>>,
      <<"76b1deec", Override("PICK",
          "Core: smart-edit refreshes file contents when externally modified")>>,
      <<"741b57ed", Override("PICK",
          "Windows: spawn via shell for compatibility")>>,
      <<"06920402", Override("PICK",
          "Core: prevent context window overflow")>>,
      <<"a044c259", Override("PICK",
          "UX: show /permissions hint when folder is untrusted")>>,
      <<"b60c8858", Override("PICK",
          "UX: shorten context overflow message when <50% limit")>>,
      <<"cd354aeb", Override("PICK",
          "Perf: avoid unnecessary UI re-renders")>>,
      <<"5f96eba5", Override("PICK",
          "CLI: do not exit on non-fatal tool errors")>>,
      <<"971eb64e", Override("PICK",
          "Memory: /memory refresh respects trusted filters")>>,
      <<"affd3cae", Override("PICK",
          "Auth UX: prevent garbled input during Google OAuth prompt")>>,
      <<"c6af4eaa", Override("PICK",
          "Security: respect folder-trust flags in FileCommandLoader")>>,
      <<"0a7ee677", Override("PICK",
          "Accessibility: show notifications in screen reader mode")>>,
      <<"bf0f61e6", Override("PICK",
          "Extensions: show install path; fix isWorkspaceTrusted check")>>,
      <<"265d39f3", Override("PICK",
          "Shell: improve execution service reliability")>>,
      <<"77162750", Override("PICK",
          "Default: enable useSmartEdit by default (behavior change)")>>,
      <<"6787d42d", Override("PICK",
          "Perf: optimize Windows IDE process detection")>>,
      <<"a3fe9279", Override("PICK",
          "Compression: avoid summarizing too-short history")>>,
      <<"249a193c", Override("PICK",
          "Prompts: optimize shell tool command guidance")>>,
      <<"3ba4ba79", Override("PICK",
          "Prompts: remove workflow examples")>>,
      <<"9e8c7676", Override("PICK",
          "Non-interactive: record tool calls")>>,
      <<"b2ba67f3", Override("PICK",
          "Trust dialog: Esc exits on launch")>>,
      <<"dabe161a", Override("PICK",
          "UI: don't accept input until slash commands load")>>,
      <<"467a305f", Override("PICK",
          "UX: enable interactive shell by default (matches llxprt intent)")>>,
      <<"0cd490a9", Override("REIMPLEMENT",
          "Gemini/GCA: add GOOGLE_CLOUD_PROJECT_ID fallback")>>,
      <<"0b6c0200", Override("REIMPLEMENT",
          "Core: failed-response retry via extra prompt (multi-provider turn/client changes)")>>,
      <<"ada179f5", Override("REIMPLEMENT",
          "Scheduler: upstream forces sequential tool calls; port carefully into llxprt batching")>>,
      <<"7c1a9024", Override("REIMPLEMENT",
          "Retry: merge specific fetch error retry logic into llxprt retry.ts (has custom failover)")>>,
      <<"518caae6", Override("REIMPLEMENT",
          "Paths: upstream centralizes '.gemini' dir; llxprt prefers '.llxprt' + compat")>>,
      <<"a6e00d91", Override("REIMPLEMENT",
          "Extensions: UX fixes bundled with Clearcut logging; port CLI changes without Clearcut")>>,
      <<"8980276b", Override("PICK",
          "Extensions/A2A: align extension typings across CLI/core/a2a-server (high churn but reduces future merge pain)")>>,
      <<"8ac2c684", Override("REIMPLEMENT",
          "A2A: consider bundling strategy for a2a-server; our release/bundle layout differs from upstream")>>,
      <<"1af3fef3", Override("PICK",
          "Tests: disable auto-update in integration tests (reduce flake)")>>,
      <<"603ec2b2", Override("PICK",
          "Tests: add deflake runner script to reproduce flakes quickly")>>,
      <<"118aade8", Override("PICK",
          "Docs: small citations mention (we already support citations)")>>,
      <<"8d8a2ab6", Override("REIMPLEMENT",
          "Docs/Tests: add deflake docs + small deflake.js tweak; our docs structure differs (no docs/integration-tests.md)")>>,
      <<"bcbcaeb8", Override("REIMPLEMENT",
          "Docs: upstream updates faq/extensions docs; port relevant info into llxprt docs layout")>>,
      <<"bd6bba8d", Override("REIMPLEMENT",
          "Docs: deflake command doc tweak; our docs structure differs (no docs/integration-tests.md)")>>,
      <<"433ca84c", Override("PICK",
          "Tests: log actual output in validateModelOutput on failure (debugging flakes)")>>,
      <<"6d84d4dc", Override("PICK",
          "Tests: make run_shell_command integration prompt more deterministic")>>,
      <<"a8379d1f", Override("PICK",
          "Tests: update/enable prompt for MCP add tool integration test")>>,
      <<"5e688b81", Override("REIMPLEMENT",
          "Tests: upstream skips a flaky replace case; decide whether to tighten tool allowlist or follow upstream skip to reduce flake")>>,
      <<"5aab793c", Override("REIMPLEMENT",
          "Tests: fixes interactive FS test flake, but llxprt doesn't currently carry file-system-interactive.test.ts")>>,
      <<"ed37b7c5", Override("PICK",
          "Tests: fix isWorkspaceTrusted mocks (stability)")>>,
      <<"21062dd3", Override("PICK",
          "Tests: clean up extension tests")>>,
      <<"c82c2c2b", Override("REIMPLEMENT",
          "A2A: add a2a-server bin + server entry tweaks; port without upstream lockfile churn and with llxprt package naming")>>,
      <<"558be873", Override("REIMPLEMENT",
          "UI: large narrow-screen margin + full-width setting change; port selectively to avoid conflicts with llxprt UI work")>>,
      <<"65b9e367", Override("PICK",
          "Docs: fix broken links in docs/architecture.md")>>,
      <<"249ea559", Override("PICK",
          "Tests: fix flaky run_shell_command test by using date command")>>,
      <<"849cd1f9", Override("REIMPLEMENT",
          "Docs: upstream changelog link fix; llxprt uses different release-notes layout")>>,
      <<"32db4ff6", Override("REIMPLEMENT",
          "Tests: upstream disables flaky interactive tests + tweaks replace; port relevant non-skip improvements to llxprt suite")>>,
      <<"a5e47c62", Override("PICK",
          "Docs: tos-privacy updates are relevant")>>,
      <<"ab3804d8", Override("REIMPLEMENT",
          "Tools: upstream web search tool-name refactor; llxprt renamed to google-web-search/exa-web-search")>>,
      <<"a64bb433", Override("REIMPLEMENT",
          "Tests: simplify auth handling in interactive tests; port changes that touch files llxprt still has (ctrl-c-exit/test-helper)")>>,
      <<"37678acb", Override("REIMPLEMENT",
          "Docs: upstream get-started docs restructuring doesn't match llxprt docs layout; port content selectively")>>,
      <<"ead8928c", Override("PICK",
          "Tests: deflake json-output integration test")>>,
      <<"cd919346", Override("PICK",
          "Tests: clean up integration test warnings (test-helper)")>>,
      <<"5dc7059b", Override("REIMPLEMENT",
          "Tests: introduces InteractiveRun class but touches missing interactive test files; port scaffolding where applicable")>>,
      <<"28e667bd", Override("PICK",
          "Tests: add explicit failure-output instructions to json-output integration test")>>,
      <<"19c1d734", Override("REIMPLEMENT",
          "Docs: add bundle command info to integration-test docs; llxprt lacks docs/integration-tests.md")>>,
      <<"4a5ef4d9", Override("REIMPLEMENT",
          "Tests: fixes interactive FS flake and extends test-helper; llxprt missing file-system-interactive.test.ts")>>,
      <<"a73b8145", Override("REIMPLEMENT",
          "Tests: rename expect helpers; touches missing interactive test files but also impacts ctrl-c-exit/test-helper")>>,
      <<"c4bd7594", Override("REIMPLEMENT",
          "Docs: document showInDialog settings; upstream doc path differs (docs/get-started/configuration.md vs llxprt docs/cli/configuration.md)")>>,
      <<"907e51ac", Override("SKIP",
          "Adds .gemini command file; llxprt command/doc conventions differ (revisit if adopting upstream command packs)")>>,
      <<"cfb71b9d", Override("SKIP",
          "A2A publishing wiring was reverted upstream and is repo/workflow-specific; implement llxprt publishing separately if needed")>>,
      <<"c23eb84b", Override("PICK",
          "A2A: remove private flag from a2a-server package")>>,
      <<"f3424844", Override("SKIP",
          "Revert of upstream A2A publishing wiring; irrelevant if we skip publishing-workflow commits")>>,
      <<"7b06a0be", Override("PICK",
          "Tests: use rmSync instead of rm -rf in integration test helper (more portable)")>>,
      <<"49b66733", Override("REIMPLEMENT",
          "Tests: upstream disables ctrl-c integration test due to flake; decide whether to stabilize or disable in llxprt")>>,
      <<"99c7108b", Override("REIMPLEMENT",
          "Tests: substantial run_shell_command + harness fixes, but touches missing interactive test file; port changes to existing llxprt tests/harness")>>,
      <<"769fe8b1", Override("REIMPLEMENT",
          "Tests: upstream replaces/rewrites replace integration tests for determinism; port suite changes (llxprt replace tests diverged)")>>,
      <<"6f0107e7", Override("REIMPLEMENT",
          "Tools: robust URL validation for web_fetch; port into google-web-fetch/direct-web-fetch (llxprt renamed tools)")>>,
      <<"4f5b3357", Override("REIMPLEMENT",
          "Tests: adds cyclic-schema MCP integration test + helper updates; port new test file and adapt to llxprt")>>,
      <<"a0893801", Override("SKIP",
          "Docs formatting-only (very noisy). Optional if you want docs parity; llxprt already enforces 80-col Prettier.")>>,
      <<"b0b1be0c", Override("SKIP",
          "Tests: upstream skips flaky tests; prefer deflake tooling + targeted stabilizations over blanket skips")>>,
      <<"3ea5581a", Override("SKIP",
          "Tests: upstream disables flaky tests; prefer deflake tooling + targeted stabilizations over blanket disables")>>,
      <<"3d245752", Override("SKIP",
          "Tool naming refactor conflicts with llxprt toolset/renames")>>,
      <<"ae02236c", Override("SKIP",
          "Path-correction refactor is largely redundant with llxprt smart-edit behavior")>>,
      <<"83075b28", Override("SKIP",
          "Telemetry log/event refactor (high churn; limited value without upstream telemetry stack)")>>,
      <<"2a7c7166", Override("SKIP",
          "Repo-specific CI action change (not applicable to llxprt CI)")>>,
      <<"061a89fc", Override("SKIP",
          "Integration-test retry toggles are repo-specific; evaluate separately with llxprt deflake needs")>>,
      <<"7b06a0be", Override("PICK",
          "Tests: use rmSync instead of rm -rf in integration test helper (more portable)")>>,
      <<"0a3e492e", Override("SKIP",
          "Upstream UI flicker integration test not carried in llxprt (and depends on upstream UI metrics)")>>,
      <<"fda3b543", Override("SKIP",
          "Unskips an upstream interactive compression test that llxprt does not currently carry; would likely add flake")>>
    >>

\* a dict display in which the first listing of a key is the one kept
dict_lookup_first(items, key) ==
    LET first == CHOOSE k \in 1..Len(items) :
                     /\ items[k][1] = key
                     /\ \A m \in 1..(k - 1) : items[m][1] # key
    IN  items[first][2]

\* the value of a key in the dict built from a dict display: the entries
\* are stored in the order listed, a later one replacing an earlier one
dict_lookup(items, key) ==
    LET last == CHOOSE k \in 1..Len(items) :
                    /\ items[k][1] = key
                    /\ \A m \in (k + 1)..Len(items) : items[m][1] # key
    IN  items[last][2]

OverrideKeys == {OverridesSource[k][1] : k \in 1..Len(OverridesSource)}

\* the dict the literal evaluates to: a key listed twice keeps its last value
OVERRIDES == [key \in OverrideKeys |-> dict_lookup(OverridesSource, key)]

\* areas = set(commit["areas"])
AreaSet(commit) == {commit.areas[k] : k \in 1..Len(commit.areas)}

\* any("clearcut-logger" in f for f in files)
touches_clearcut(files) ==
    \E k \in 1..Len(files) : contains(LitClearcutLogger, files[k])

\* the two release/versioning tests on the lowered subject
is_release(low) ==
    \/ startswith(low, LitChoreRelease)
    \/ startswith(low, LitFixPatch)
    \/ contains(LitPreReleases, low)

\* lower.startswith("revert ")
is_revert(low) == startswith(low, LitRevert)

\* decide with its last statement, the default return, missing
default_return_missing(commit) == PyNone

\* decide whose last statement returns a PICK
default_is_pick(commit) == Override("PICK", "Relevant improvement for llxprt")

\* decide, last statement: the default
decide_default(commit) ==
    Override("SKIP", "Not selected for llxprt (low value or conflicts)")

\* decide from the model-routing test on: the subject keyword rules
decide_keywords(commit) ==
    LET low == lower(commit.subject) IN
    IF contains(LitModelRouting, low) \/ contains(LitFallback, low)
    THEN Override("SKIP", "Model routing/fallback not used in llxprt")
    ELSE IF contains(LitCodebaseInvestigator, low)
    THEN Override("SKIP", "CodebaseInvestigator disabled in llxprt")
    ELSE IF contains(LitCleanupMarkdown, low)
    THEN Override("SKIP", "Docs/format churn")
    ELSE IF contains(LitA2a, low)
            /\ (contains(LitPublish, low) \/ contains(LitPublishing, low))
    THEN Override("SKIP", "A2A publishing/release process")
    ELSE decide_default(commit)

\* decide with the area tests placed after the subject keyword tests
areas_after_keywords(commit) ==
    LET areas == AreaSet(commit)
        kw == decide_keywords(commit)
    IN
    IF kw # decide_default(commit) THEN kw
    ELSE IF areas \subseteq {"docs"}
    THEN Override("SKIP", "Docs only")
    ELSE IF areas \subseteq {"github"}
    THEN Override("SKIP", "CI/workflow only")
    ELSE IF areas \subseteq {"integration-tests"}
    THEN Override("SKIP", "Upstream integration tests only")
    ELSE kw

\* decide from the `areas <= {"docs"}` test on
decide_areas(commit) ==
    LET areas == AreaSet(commit) IN
    IF areas \subseteq {"docs"}
    THEN Override("SKIP", "Docs only")
    ELSE IF areas \subseteq {"github"}
    THEN Override("SKIP", "CI/workflow only")
    ELSE IF areas \subseteq {"integration-tests"}
    THEN Override("SKIP", "Upstream integration tests only")
    ELSE decide_keywords(commit)

\* decide from the revert test on
decide_revert(commit) ==
    IF is_revert(lower(commit.subject))
    THEN Override("SKIP", "Upstream revert (skip unless original was picked)")
    ELSE decide_areas(commit)

\* decide from the release/versioning tests on
decide_release(commit) ==
    IF is_release(lower(commit.subject))
    THEN Override("SKIP", "Upstream release/versioning")
    ELSE decide_revert(commit)

\* decide with the ClearcutLogger test placed after the release tests
telemetry_after_release(commit) ==
    IF is_release(lower(commit.subject))
    THEN Override("SKIP", "Upstream release/versioning")
    ELSE IF touches_clearcut(commit.files)
    THEN Override("SKIP", "Touches ClearcutLogger (removed in llxprt)")
    ELSE decide_revert(commit)

\* decide from the ClearcutLogger test on
decide_telemetry(commit) ==
    IF touches_clearcut(commit.files)
    THEN Override("SKIP", "Touches ClearcutLogger (removed in llxprt)")
    ELSE decide_release(commit)

\* decide with the OVERRIDES lookup placed after the ClearcutLogger test
overrides_after_telemetry(commit) ==
    IF touches_clearcut(commit.files)
    THEN Override("SKIP", "Touches ClearcutLogger (removed in llxprt)")
    ELSE IF commit.short \in DOMAIN OVERRIDES
    THEN OVERRIDES[commit.short]
    ELSE decide_release(commit)

\* decide(commit)
decide(commit) ==
    IF commit.short \in DOMAIN OVERRIDES
    THEN OVERRIDES[commit.short]
    ELSE decide_telemetry(commit)

-----------------------------------------------------------------------------
(* 20260104gmerge/generate_cherries.py                                     *)

PICKS ==
    {
      "4f17eae5", "d38ab079", "2e6d69c9", "47f69317", "8c1656bf", "cfaa95a2",
      "60420e52", "a9083b9d", "b734723d", "c71b7491", "991bd373", "a4403339",
      "22f725eb", "406f0baa", "d42da871", "3a1d3769", "2ef38065", "23e52f0f",
      "f3ffaf09", "0ded546a", "659b0557", "4a0fcd05", "2b61ac53", "8da47db1",
      "7c086fe5", "e4226b8a", "4d2a1111", "426d3614", "b4a405c6", "d3bdbc69",
      "21163a16", "cedf0235", "dd42893d", "d065c3ca", "0fd9ff0f", "518a9ca3",
      "d0ab6e99", "397e52da", "61a71c4f", "d5a06d3c", "31f58a1f", "70a99af1",
      "72b16b3a", "654c5550", "62dc9683", "e72c00cf", "cf16d167", "16f5f767",
      "ccf8d0ca", "5b750f51", "ed9f714f", "306e12c2", "c7243997", "2940b508",
      "0d7da7ec", "847c6e7f", "ce40a653", "b1bbef43", "49bde9fc", "6ded45e5",
      "d2c9c5b3", "0658b4aa" }

REIMPL ==
    {
      "130f0a02", "9049f8f8", "8731309d", "dd3b1cb6", "9b9ab609", "f22aa72c",
      "b8df8b2a", "c9c633be", "dcf362bc", "937c15c6", "c8518d6a", "08e87a59",
      "f4330c9f", "995ae717", "b364f376", "98eef9ba", "7dd2d8f7", "bf80263b",
      "36de6862", "cc7e1472", "05930d5e" }

\* SKIPS
SKIPS ==
    {
      "8a937ebf", "47f5e73b", "c80352a7", "7bed302f", "ccaa7009", "1fc3fc0a",
      "72b2cc54", "e2fef41f", "8c74be79", "5aaa0e66", "872d2eaf", "b4f6c7c4",
      "c96fd828", "155242af", "ffa547ce", "39cc07de", "bec2bfca", "de3632af",
      "6b866d12", "2aa1d742", "01c577c3", "a67deae8", "cd0f9fe2", "ca3d260a",
      "b2ef6626", "be25e2cb", "795e5134", "67866849", "725b3120", "ff31a222",
      "aa46eb4f", "a788a6df", "d52ec522", "71ecc401", "9a4c0455", "a96f0659",
      "085e5b1f", "30d9a336", "3c57e76c", "723b8d33", "8aace3af", "fc4e10b5",
      "81772c42", "0e7b3951", "f4080b60", "14867c7c", "0ed4f980", "a2013f34",
      "f0eed9b2", "9d0177e0", "cb8f93ba", "2c93542e", "a74a04d1", "193b4bba",
      "74a77719", "af833c5e", "e49f4673", "34439460", "fb44f5ba", "e9e80b05",
      "465f97a5", "dc90c8fe", "0542de95", "9cf8b403", "a3947a8d", "c9c2e79d",
      "92f5355d", "d9f6cebe", "5213d9f3", "f36dec6a", "f4f37279", "e5161610",
      "5be5575d", "73b3211e", "8a725859", "44b3c974", "f5e07d94", "d1c913ed",
      "3acb014e", "0b20f88f", "73b1afb1" }

\* decision_for(short)
decision_for(short) ==
    IF short \in PICKS THEN "PICK"
    ELSE IF short \in REIMPL THEN "REIMPLEMENT"
    ELSE "SKIP"

-----------------------------------------------------------------------------
(* Inputs                                                                  *)

\* the inventory of length n whose positions in pos hold solo ids
InventoryOf(n, pos) ==
    [k \in 1..n |->
        Commit(IF k \in pos
               THEN SoloOrder[Cardinality({j \in pos : j <= k})]
               ELSE PlainShorts[k])]

InventoriesUpTo(max) ==
    UNION { { InventoryOf(n, pos) :
                pos \in {p \in SUBSET (1..n) : Cardinality(p) <= Len(SoloOrder)} } :
            n \in 0..max }

Inventories == InventoriesUpTo(MaxCommits)

ShortsOf(cs) == {cs[k].short : k \in 1..Len(cs)}

-----------------------------------------------------------------------------
(* Inputs of the classifier                                                *)

\* longest files list of an explored commit
MaxFiles == 1

\* longest areas list of an explored commit
MaxAreas == 2

SubjWidget ==
    \* add new widget
    <<"a", "d", "d", " ", "n", "e", "w", " ", "w", "i", "d", "g", "e", "t">>
SubjRelease ==
    \* chore(release): v0.10.0
    <<"c", "h", "o", "r", "e", "(", "r", "e", "l", "e", "a", "s", "e", ")",
    ":", " ", "v", "0", ".", "1", "0", ".", "0">>
SubjReleaseCaps ==
    \* Chore(Release): bump
    <<"C", "h", "o", "r", "e", "(", "R", "e", "l", "e", "a", "s", "e", ")",
    ":", " ", "b", "u", "m", "p">>
SubjPatch ==
    \* fix(patch): cherry-pick 1a2b
    <<"f", "i", "x", "(", "p", "a", "t", "c", "h", ")", ":", " ", "c", "h",
    "e", "r", "r", "y", "-", "p", "i", "c", "k", " ", "1", "a", "2", "b">>
SubjPreReleases ==
    \* ci: pre releases
    <<"c", "i", ":", " ", "p", "r", "e", " ", "r", "e", "l", "e", "a", "s",
    "e", "s">>
SubjReleaseInside ==
    \* fix: chore(release): typo
    <<"f", "i", "x", ":", " ", "c", "h", "o", "r", "e", "(", "r", "e", "l",
    "e", "a", "s", "e", ")", ":", " ", "t", "y", "p", "o">>
SubjRevert ==
    \* Revert "feat: fallback"
    <<"R", "e", "v", "e", "r", "t", " ", "\"", "f", "e", "a", "t", ":", " ",
    "f", "a", "l", "l", "b", "a", "c", "k", "\"">>
SubjReverted ==
    \* reverted widget
    <<"r", "e", "v", "e", "r", "t", "e", "d", " ", "w", "i", "d", "g", "e",
    "t">>
SubjReleaseRevert ==
    \* fix(patch): revert fallback
    <<"f", "i", "x", "(", "p", "a", "t", "c", "h", ")", ":", " ", "r", "e",
    "v", "e", "r", "t", " ", "f", "a", "l", "l", "b", "a", "c", "k">>
SubjRouting ==
    \* feat: Model Routing
    <<"f", "e", "a", "t", ":", " ", "M", "o", "d", "e", "l", " ", "R", "o",
    "u", "t", "i", "n", "g">>
SubjFallback ==
    \* fix: fallback to flash
    <<"f", "i", "x", ":", " ", "f", "a", "l", "l", "b", "a", "c", "k", " ",
    "t", "o", " ", "f", "l", "a", "s", "h">>
SubjInvestigator ==
    \* codebase investigator on
    <<"c", "o", "d", "e", "b", "a", "s", "e", " ", "i", "n", "v", "e", "s",
    "t", "i", "g", "a", "t", "o", "r", " ", "o", "n">>
SubjMarkdown ==
    \* cleanup(markdown): a2a publish
    <<"c", "l", "e", "a", "n", "u", "p", "(", "m", "a", "r", "k", "d", "o",
    "w", "n", ")", ":", " ", "a", "2", "a", " ", "p", "u", "b", "l", "i",
    "s", "h">>
SubjA2aPublish ==
    \* A2A: publishing flow
    <<"A", "2", "A", ":", " ", "p", "u", "b", "l", "i", "s", "h", "i", "n",
    "g", " ", "f", "l", "o", "w">>
SubjPublishA2a ==
    \* publish a2a server
    <<"p", "u", "b", "l", "i", "s", "h", " ", "a", "2", "a", " ", "s", "e",
    "r", "v", "e", "r">>
SubjA2a ==
    \* a2a: trace ids
    <<"a", "2", "a", ":", " ", "t", "r", "a", "c", "e", " ", "i", "d", "s">>
PathClearcut ==
    \* core/clearcut-logger/x.ts
    <<"c", "o", "r", "e", "/", "c", "l", "e", "a", "r", "c", "u", "t", "-",
    "l", "o", "g", "g", "e", "r", "/", "x", ".", "t", "s">>
PathCamel ==
    \* core/ClearcutLogger.ts
    <<"c", "o", "r", "e", "/", "C", "l", "e", "a", "r", "c", "u", "t", "L",
    "o", "g", "g", "e", "r", ".", "t", "s">>
PathDocs ==
    \* docs/cli.md
    <<"d", "o", "c", "s", "/", "c", "l", "i", ".", "m", "d">>

Subjects ==
    { SubjWidget, SubjRelease, SubjReleaseCaps, SubjPatch,
      SubjPreReleases, SubjReleaseInside, SubjRevert, SubjReverted,
      SubjReleaseRevert, SubjRouting, SubjFallback, SubjInvestigator,
      SubjMarkdown, SubjA2aPublish, SubjPublishA2a, SubjA2a }

Paths == {PathClearcut, PathCamel, PathDocs}

AreaTags == {"docs", "github", "integration-tests", "core"}

\* keys of OVERRIDES (a PICK, a REIMPLEMENT, a SKIP, the key listed twice)
\* and ids of the 20260104 tables (in PICKS, in REIMPL, in neither)
ClassifiedShorts ==
    {"b92e3bca", "0cd490a9", "907e51ac", "7b06a0be",
     "4f17eae5", "130f0a02", "8a937ebf"}

SeqsUpTo(S, n) == UNION {[1..k -> S] : k \in 0..n}

\* Commit TypedDict, restricted to the fields the classifiers read
CommitRecords ==
    [short : ClassifiedShorts,
     subject : Subjects,
     files : SeqsUpTo(Paths, MaxFiles),
     areas : SeqsUpTo(AreaTags, MaxAreas)]

NoCommit == [short |-> "", subject |-> <<>>, files |-> <<>>, areas |-> <<>>]

\* value of a result variable before the call
NotCalled == Override("", "")

-----------------------------------------------------------------------------
(* build_batches as a state machine                                        *)

\* no run of a cherries generator or of a whole main is under way
ReportIdle ==
    /\ pick_rows = <<>>
    /\ reimpl_rows = <<>>
    /\ skip_rows = <<>>
    /\ summary_lines = [picks |-> <<>>, reimpl |-> <<>>]
    /\ generator = ""
    /\ inventory_file = ""
    /\ records = <<>>
    /\ classified = 0
    /\ written = <<>>
    /\ error = ""
    /\ rows = <<>>
    /\ lines = <<>>
    /\ counts = <<>>

InitBatches ==
    /\ commits \in Inventories
    /\ picks \in SUBSET ShortsOf(commits)
    /\ reimpl \in {r \in SUBSET ShortsOf(commits) : (r \cap picks) \subseteq BothShorts}
    /\ batches = <<>>
    /\ current = <<>>
    /\ i = 0
    /\ pc = "loop"
    /\ plan_rows = <<>>
    /\ progress_rows = <<>>
    /\ progress_total = 0
    /\ audit_rows = <<>>
    /\ playbooks = <<>>
    /\ ReportIdle
    /\ cur_commit = NoCommit
    /\ cur_override = NotCalled
    /\ cur_decision = ""
    /\ called = {}

\* for commit in commits: ... (one iteration)
LoopBody ==
    /\ pc = "loop"
    /\ i < Len(commits)
    /\ LET st == build_batches_body([batches |-> batches, current |-> current],
                                    commits[i + 1], picks, reimpl, solo_picks)
       IN  /\ batches' = st.batches
           /\ current' = st.current
    /\ i' = i + 1
    /\ UNCHANGED <<commits, picks, reimpl, pc, artifactVars, classifyVars, reportVars>>

\* loop exhausted: final flush and return
LoopExit ==
    /\ pc = "loop"
    /\ i = Len(commits)
    /\ LET st == build_batches_tail([batches |-> batches, current |-> current])
       IN  /\ batches' = st.batches
           /\ current' = st.current
    /\ pc' = "done"
    /\ UNCHANGED <<commits, picks, reimpl, i, artifactVars, classifyVars, reportVars>>

NextBatches == LoopBody \/ LoopExit

vars == <<batchVars, artifactVars, classifyVars, reportVars>>

Spec == InitBatches /\ [][NextBatches]_vars

-----------------------------------------------------------------------------
(* main of generate_plan_artifacts.py as a state machine                   *)

InitArtifacts ==
    /\ commits \in InventoriesUpTo(MaxArtifactCommits)
    /\ picks \in SUBSET ShortsOf(commits)
    /\ reimpl \in {r \in SUBSET ShortsOf(commits) : (r \cap picks) \subseteq BothShorts}
    /\ batches = <<>>
    /\ current = <<>>
    /\ i = 0
    /\ pc = "main"
    /\ plan_rows = <<>>
    /\ progress_rows = <<>>
    /\ progress_total = 0
    /\ audit_rows = <<>>
    /\ playbooks = <<>>
    /\ ReportIdle
    /\ cur_commit = NoCommit
    /\ cur_override = NotCalled
    /\ cur_decision = ""
    /\ called = {}

\* batches = build_batches(commits, picks, reimpl)
BuildBatches ==
    /\ pc = "main"
    /\ batches' = build_batches(commits, picks, reimpl)
    /\ pc' = "done"
    /\ UNCHANGED <<commits, picks, reimpl, current, i, artifactVars, classifyVars, reportVars>>

\* write_plan(batches, missing_files): the Batch Schedule
WritePlan ==
    /\ pc = "done"
    /\ plan_rows' = [k \in 1..Len(batches) |-> plan_row(k, batches[k])]
    /\ pc' = "plan"
    /\ UNCHANGED <<commits, picks, reimpl, batches, current, i,
                   progress_rows, progress_total, audit_rows, playbooks,
                   classifyVars, reportVars>>

\* write_progress(batches)
WriteProgress ==
    /\ pc = "plan"
    /\ progress_total' = Len(batches)
    /\ progress_rows' = [k \in 1..Len(batches) |-> progress_row(k, batches[k])]
    /\ pc' = "progress"
    /\ UNCHANGED <<commits, picks, reimpl, batches, current, i,
                   plan_rows, audit_rows, playbooks, classifyVars, reportVars>>

\* write_notes(): a fixed text
WriteNotes ==
    /\ pc = "progress"
    /\ pc' = "notes"
    /\ UNCHANGED <<commits, picks, reimpl, batches, current, i,
                   artifactVars, classifyVars, reportVars>>

\* write_audit(commits, picks, reimpl)
WriteAudit ==
    /\ pc = "notes"
    /\ audit_rows' = [k \in 1..Len(commits) |->
                          audit_row(k, commits[k], picks, reimpl)]
    /\ pc' = "audit"
    /\ UNCHANGED <<commits, picks, reimpl, batches, current, i,
                   plan_rows, progress_rows, progress_total, playbooks,
                   classifyVars, reportVars>>

\* write_playbooks(commits, reimpl, rationale)
WritePlaybooks ==
    /\ pc = "audit"
    /\ LET cs == playbook_commits(commits, reimpl)
       IN  playbooks' = [k \in 1..Len(cs) |-> playbook_path(cs[k])]
    /\ pc' = "playbooks"
    /\ UNCHANGED <<commits, picks, reimpl, batches, current, i,
                   plan_rows, progress_rows, progress_total, audit_rows,
                   classifyVars, reportVars>>

NextArtifacts ==
    \/ BuildBatches
    \/ WritePlan
    \/ WriteProgress
    \/ WriteNotes
    \/ WriteAudit
    \/ WritePlaybooks

SpecArtifacts == InitArtifacts /\ [][NextArtifacts]_vars

-----------------------------------------------------------------------------
(* The classifiers as a state machine: one inventory record, classified    *)
(* by decide (20251215) and by decision_for (20260104)                     *)

InitClassify ==
    /\ cur_commit \in CommitRecords
    /\ cur_override = NotCalled
    /\ cur_decision = ""
    /\ called = {}
    /\ commits = <<>>
    /\ picks = {}
    /\ reimpl = {}
    /\ batches = <<>>
    /\ current = <<>>
    /\ i = 0
    /\ pc = "idle"
    /\ plan_rows = <<>>
    /\ progress_rows = <<>>
    /\ progress_total = 0
    /\ audit_rows = <<>>
    /\ playbooks = <<>>
    /\ ReportIdle

\* override = decide(commit), the call in main
Decide ==
    /\ "decide" \notin called
    /\ cur_commit # NoCommit
    /\ cur_override' = decide(cur_commit)
    /\ called' = called \cup {"decide"}
    /\ UNCHANGED <<cur_commit, cur_decision, batchVars, artifactVars, reportVars>>

\* decision = decision_for(commit["short"]), the call in main
DecisionFor ==
    /\ "decision_for" \notin called
    /\ cur_commit # NoCommit
    /\ cur_decision' = decision_for(cur_commit.short)
    /\ called' = called \cup {"decision_for"}
    /\ UNCHANGED <<cur_commit, cur_override, batchVars, artifactVars, reportVars>>

NextClassify == Decide \/ DecisionFor

SpecClassify == InitClassify /\ [][NextClassify]_vars

-----------------------------------------------------------------------------
(* main of 20251215gemerge/generate_cherries.py as a state machine         *)

\* longest inventory handed to the 20251215 cherries generator
MaxTableCommits == 3

SubjPipe ==
    \* fix a|b parsing
    <<"f", "i", "x", " ", "a", "|", "b", " ", "p", "a", "r", "s", "i", "n", "g">>

\* the commits of the explored inventories: three keys of OVERRIDES (a
\* PICK, a REIMPLEMENT, a SKIP) and three commits that the rules classify
TableRecords ==
    { [short |-> "b92e3bca", subject |-> SubjWidget,
       files |-> <<PathClearcut>>, areas |-> <<"core">>],
      [short |-> "0cd490a9", subject |-> SubjFallback,
       files |-> <<>>, areas |-> <<"core">>],
      [short |-> "907e51ac", subject |-> SubjWidget,
       files |-> <<PathDocs>>, areas |-> <<"docs">>],
      [short |-> "4f17eae5", subject |-> SubjWidget,
       files |-> <<PathClearcut>>, areas |-> <<"core">>],
      [short |-> "130f0a02", subject |-> SubjPipe,
       files |-> <<PathCamel>>, areas |-> <<"core">>],
      [short |-> "8a937ebf", subject |-> SubjRelease,
       files |-> <<>>, areas |-> <<"github">>] }

\* inventories of distinct commits
TableInventories ==
    {cs \in SeqsUpTo(TableRecords, MaxTableCommits) :
        \A a, b \in 1..Len(cs) : a # b => cs[a] # cs[b]}

RECURSIVE escape_pipes(_)
\* text.replace("|", "\\|") on a string given as its characters
escape_pipes(text) ==
    IF text = <<>> THEN <<>>
    ELSE (IF Head(text) = "|" THEN <<"\\", "|">> ELSE <<Head(text)>>)
         \o escape_pipes(Tail(text))

\* counts[...] += 1 that counts a REIMPLEMENT under PICK
counted_reimpl_as_pick(cnt, override) ==
    LET d == IF override.decision = "REIMPLEMENT" THEN "PICK"
             ELSE override.decision
    IN  [cnt EXCEPT ![d] = @ + 1]

\* counts[override.decision] += 1
counted(cnt, override) == [cnt EXCEPT ![override.decision] = @ + 1]

\* the table row appended to lines for one element (idx, c, d) of rows,
\* restricted to the columns #, Commit, Decision, Rationale and Subject; no
\* rationale that decide returns holds a "|", so its replace changes nothing
table_line(r) ==
    [idx |-> DecimalDigits(r[1]),
     short |-> r[2].short,
     decision |-> r[3].decision,
     rationale |-> r[3].rationale,
     subject |-> escape_pipes(r[2].subject)]

\* the commits of the rows with this decision: picks and reimpl of main
rows_decided(rs, decision) ==
    LET sel == SelectSeq(rs, LAMBDA r : r[3].decision = decision)
    IN  [k \in 1..Len(sel) |-> sel[k][2].short]

InitTable ==
    /\ commits \in TableInventories
    /\ pc = "main"
    /\ rows = <<>>
    /\ lines = <<>>
    /\ counts = [d \in Decision |-> 0]
    /\ classified = 0
    /\ written = <<>>
    /\ error = ""
    /\ generator = ""
    /\ inventory_file = ""
    /\ records = <<>>
    /\ pick_rows = <<>>
    /\ reimpl_rows = <<>>
    /\ skip_rows = <<>>
    /\ summary_lines = [picks |-> <<>>, reimpl |-> <<>>]
    /\ picks = {}
    /\ reimpl = {}
    /\ batches = <<>>
    /\ current = <<>>
    /\ i = 0
    /\ plan_rows = <<>>
    /\ progress_rows = <<>>
    /\ progress_total = 0
    /\ audit_rows = <<>>
    /\ playbooks = <<>>
    /\ cur_commit = NoCommit
    /\ cur_override = NotCalled
    /\ cur_decision = ""
    /\ called = {}

\* one iteration of `for idx, commit in enumerate(commits, 1):`
DecideCommit ==
    /\ pc = "main"
    /\ classified < Len(commits)
    /\ LET idx == classified + 1
           override == decide(commits[idx])
       IN  /\ rows' = Append(rows, <<idx, commits[idx], override>>)
           /\ counts' = counted(counts, override)
    /\ classified' = classified + 1
    /\ UNCHANGED <<batchVars, artifactVars, classifyVars, summaryVars, lines,
                   generator, inventory_file, records, written, error>>

\* header and lines: one table row per element of rows
BuildTable ==
    /\ pc = "main"
    /\ classified = Len(commits)
    /\ lines' = [k \in 1..Len(rows) |-> table_line(rows[k])]
    /\ pc' = "lines"
    /\ UNCHANGED <<commits, picks, reimpl, batches, current, i, artifactVars,
                   classifyVars, summaryVars, mainVars, rows, counts>>

\* OUT_CHERRIES.write_text(...)
WriteTable ==
    /\ pc = "lines"
    /\ written' = Append(written, "CHERRIES.md")
    /\ pc' = "table"
    /\ UNCHANGED <<commits, picks, reimpl, batches, current, i, artifactVars,
                   classifyVars, summaryVars, tableVars, generator,
                   inventory_file, records, classified, error>>

\* picks, reimpl, summary_lines; OUT_SUMMARY.write_text(...)
WriteTableSummary ==
    /\ pc = "table"
    /\ summary_lines' = [picks |-> rows_decided(rows, "PICK"),
                         reimpl |-> rows_decided(rows, "REIMPLEMENT")]
    /\ written' = Append(written, "SUMMARY.md")
    /\ pc' = "summary"
    /\ UNCHANGED <<commits, picks, reimpl, batches, current, i, artifactVars,
                   classifyVars, pick_rows, reimpl_rows, skip_rows, tableVars,
                   generator, inventory_file, records, classified, error>>

NextTable == DecideCommit \/ BuildTable \/ WriteTable \/ WriteTableSummary

SpecTable == InitTable /\ [][NextTable]_vars

-----------------------------------------------------------------------------
(* main of 20260104gmerge/generate_cherries.py as a state machine          *)

\* longest inventory handed to the 20260104 cherries generator
MaxSummaryCommits == 23

\* most commits of such an inventory that are not in PICKS
MaxUnpicked == 2

\* the [:20] of the PICK highlights
HighlightLimit == 20

\* short ids of PICKS, of REIMPL and of commits in neither (ids of SKIPS
\* and "b92e3bca", which none of the three tables lists), in the order in
\* which the explored inventories hold them
SummaryPickShorts ==
    <<"4f17eae5", "d38ab079", "2e6d69c9", "47f69317", "8c1656bf", "cfaa95a2",
      "60420e52", "a9083b9d", "b734723d", "c71b7491", "991bd373", "a4403339",
      "22f725eb", "406f0baa", "d42da871", "3a1d3769", "2ef38065", "23e52f0f",
      "f3ffaf09", "0ded546a", "659b0557", "4a0fcd05", "2b61ac53", "8da47db1",
      "7c086fe5", "e4226b8a">>

SummaryReimplShorts == <<"130f0a02", "9049f8f8", "8731309d", "dd3b1cb6">>

SummarySkipShorts == <<"b92e3bca", "8a937ebf", "47f5e73b", "c80352a7">>

RECURSIVE PositionSets(_, _)
\* the sets of at most k positions of an inventory of n commits
PositionSets(n, k) ==
    IF k = 0 THEN {{}}
    ELSE PositionSets(n, k - 1)
         \cup {D \cup {p} : D \in PositionSets(n, k - 1), p \in 1..n}

\* the inventory of n commits whose commits at the positions of DOMAIN kinds
\* are REIMPL ("R") or SKIPS ("S") commits and whose other commits are in PICKS
SummaryInventory(n, kinds) ==
    [p \in 1..n |->
        LET before(kind) == Cardinality({q \in DOMAIN kinds :
                                            q <= p /\ kinds[q] = kind})
        IN  IF p \notin DOMAIN kinds
            THEN Commit(SummaryPickShorts[
                     p - Cardinality({q \in DOMAIN kinds : q < p})])
            ELSE IF kinds[p] = "R"
            THEN Commit(SummaryReimplShorts[before("R")])
            ELSE Commit(SummarySkipShorts[before("S")])]

\* row(idx, commit, decision), restricted to the columns that identify it
cherries_row(idx, commit, decision) ==
    [idx |-> idx, short |-> commit.short, decision |-> decision]

\* rows numbered by their position in the list kept for the decision
rows_of_renumbered(cs, decision) ==
    LET sel == SelectSeq(cs, LAMBDA c : decision_for(c.short) = decision)
    IN  [k \in 1..Len(sel) |-> cherries_row(k, sel[k], decision)]

\* the rows that the loop of main appends to the list kept for a decision
rows_of(cs, decision) ==
    LET all == [k \in 1..Len(cs) |->
                   cherries_row(k, cs[k], decision_for(cs[k].short))]
    IN  SelectSeq(all, LAMBDA r : r.decision = decision)

\* a Python slice s[:n]
SliceTo(s, n) == SubSeq(s, 1, IF Len(s) < n THEN Len(s) ELSE n)

\* the commits under "## PICK highlights"
summary_picks(cs) ==
    SliceTo(SelectSeq(cs, LAMBDA c : c.short \in PICKS), HighlightLimit)

\* the commits under "## REIMPLEMENT highlights"
summary_reimpl(cs) == SelectSeq(cs, LAMBDA c : c.short \in REIMPL)

InitSummary ==
    /\ \E n \in 0..MaxSummaryCommits :
          \E D \in PositionSets(n, MaxUnpicked) :
              \E kinds \in [D -> {"R", "S"}] :
                  commits = SummaryInventory(n, kinds)
    /\ pc = "main"
    /\ pick_rows = <<>>
    /\ reimpl_rows = <<>>
    /\ skip_rows = <<>>
    /\ summary_lines = [picks |-> <<>>, reimpl |-> <<>>]
    /\ generator = ""
    /\ inventory_file = ""
    /\ records = <<>>
    /\ classified = 0
    /\ written = <<>>
    /\ error = ""
    /\ rows = <<>>
    /\ lines = <<>>
    /\ counts = <<>>
    /\ picks = {}
    /\ reimpl = {}
    /\ batches = <<>>
    /\ current = <<>>
    /\ i = 0
    /\ plan_rows = <<>>
    /\ progress_rows = <<>>
    /\ progress_total = 0
    /\ audit_rows = <<>>
    /\ playbooks = <<>>
    /\ cur_commit = NoCommit
    /\ cur_override = NotCalled
    /\ cur_decision = ""
    /\ called = {}

\* for idx, commit in enumerate(commits, 1): decision_for, row, append
ClassifyRows ==
    /\ pc = "main"
    /\ pick_rows' = rows_of(commits, "PICK")
    /\ reimpl_rows' = rows_of(commits, "REIMPLEMENT")
    /\ skip_rows' = rows_of(commits, "SKIP")
    /\ counts' = <<Len(rows_of(commits, "PICK")),
                   Len(rows_of(commits, "REIMPLEMENT")),
                   Len(rows_of(commits, "SKIP"))>>
    /\ pc' = "rows"
    /\ UNCHANGED <<commits, picks, reimpl, batches, current, i, artifactVars,
                   classifyVars, rows, lines, summary_lines, mainVars>>

\* OUT_CHERRIES.write_text(...)
WriteCherries ==
    /\ pc = "rows"
    /\ written' = Append(written, "CHERRIES.md")
    /\ pc' = "cherries"
    /\ UNCHANGED <<commits, picks, reimpl, batches, current, i, artifactVars,
                   classifyVars, tableVars, summaryVars, generator, inventory_file,
                   records, classified, error>>

\* summary_lines built; OUT_SUMMARY.write_text(...)
WriteSummary ==
    /\ pc = "cherries"
    /\ summary_lines' =
          [picks |-> [k \in 1..Len(summary_picks(commits)) |->
                         summary_picks(commits)[k].short],
           reimpl |-> [k \in 1..Len(summary_reimpl(commits)) |->
                          summary_reimpl(commits)[k].short]]
    /\ written' = Append(written, "SUMMARY.md")
    /\ pc' = "summary"
    /\ UNCHANGED <<commits, picks, reimpl, batches, current, i, artifactVars,
                   classifyVars, tableVars, pick_rows, reimpl_rows, skip_rows, generator,
                   inventory_file, records, classified, error>>

NextSummary == ClassifyRows \/ WriteCherries \/ WriteSummary

SpecSummary == InitSummary /\ [][NextSummary]_vars

-----------------------------------------------------------------------------
(* A run of the main of each of the three scripts, from the read of the    *)
(* inventory to the last write                                             *)

\* most records of an inventory file in a run of a main
MaxRecords == 2

Cherries2025 == "20251215gemerge/generate_cherries.py"

Cherries2026 == "20260104gmerge/generate_cherries.py"

PlanArtifacts == "20260104gmerge/generate_plan_artifacts.py"

Generators == {Cherries2025, Cherries2026, PlanArtifacts}

\* the fields of Commit, the same in the three scripts
CommitFields == {"sha", "short", "date", "subject", "files", "areas", "is_merge"}

\* a JSON value of the inventory list that is no object
NotADict == [dict |-> FALSE, keys |-> {}, selected |-> FALSE]

\* the records of an inventory file: a JSON object with the seven fields,
\* with one of them missing or with one more key, or a value that is no
\* object; selected tells whether the tables make the commit PICK or
\* REIMPLEMENT
InventoryRecords ==
    {NotADict}
    \cup [dict : {TRUE},
          keys : {CommitFields, CommitFields \cup {"extra"}}
                 \cup {CommitFields \ {f} : f \in CommitFields},
          selected : BOOLEAN]

\* Commit(**c) raises TypeError
commit_from_record_fails(rec) == ~rec.dict \/ rec.keys # CommitFields

\* the loop that subscripts the key "short" alone
loop_keys_short_only(gen) ==
    IF gen = PlanArtifacts THEN {} ELSE {"short"}

\* the keys that the classification loop of main subscripts in every record
loop_keys(gen) ==
    IF gen = Cherries2025 THEN {"short", "subject", "files", "areas"}
    ELSE IF gen = Cherries2026 THEN {"short", "areas", "subject", "sha", "date"}
    ELSE {}

\* the output files of a main, in the order of their write_text calls
outputs(gen) ==
    IF gen = PlanArtifacts
    THEN <<"PLAN.md", "PROGRESS.md", "NOTES.md", "AUDIT.md", "PLAYBOOKS.md">>
    ELSE <<"CHERRIES.md", "SUMMARY.md">>

\* the keys subscripted in every record while output k is built
output_keys(gen, k) ==
    IF gen = Cherries2025 /\ k = 1 THEN {"sha", "short", "date", "areas", "subject"}
    ELSE IF gen = Cherries2026 /\ k = 2 THEN {"short"}
    ELSE {}

\* the keys subscripted in the PICK and REIMPLEMENT records while output k
\* is built
output_keys_selected(gen, k) ==
    IF gen = Cherries2025 /\ k = 2 THEN {"short", "sha", "date", "subject"}
    ELSE IF gen = Cherries2026 /\ k = 2 THEN {"short", "subject"}
    ELSE {}

\* subscripting the keys in the record raises KeyError, or TypeError for a
\* value that is no object
subscript_fails(rec, keys) ==
    IF rec.dict THEN ~(keys \subseteq rec.keys) ELSE keys # {}

\* the exception that subscripting raises
subscript_error(rec) == IF rec.dict THEN "KeyError" ELSE "TypeError"

InitMain ==
    /\ generator \in Generators
    /\ inventory_file \in {"ok", "missing", "malformed"}
    /\ records \in (IF inventory_file = "ok"
                    THEN SeqsUpTo(InventoryRecords, MaxRecords)
                    ELSE {<<>>})
    /\ classified = 0
    /\ written = <<>>
    /\ error = ""
    /\ rows = <<>>
    /\ lines = <<>>
    /\ counts = <<>>
    /\ pc = "start"
    /\ pick_rows = <<>>
    /\ reimpl_rows = <<>>
    /\ skip_rows = <<>>
    /\ summary_lines = [picks |-> <<>>, reimpl |-> <<>>]
    /\ commits = <<>>
    /\ picks = {}
    /\ reimpl = {}
    /\ batches = <<>>
    /\ current = <<>>
    /\ i = 0
    /\ plan_rows = <<>>
    /\ progress_rows = <<>>
    /\ progress_total = 0
    /\ audit_rows = <<>>
    /\ playbooks = <<>>
    /\ cur_commit = NoCommit
    /\ cur_override = NotCalled
    /\ cur_decision = ""
    /\ called = {}

\* json.loads(DATA_PATH.read_text(...)), and in generate_plan_artifacts.py
\* the Commit(**c) of every record, in the first statement of main
ReadInventory ==
    /\ pc = "start"
    /\ IF inventory_file = "missing"
       THEN error' = "FileNotFoundError" /\ pc' = "aborted"
       ELSE IF inventory_file = "malformed"
       THEN error' = "JSONDecodeError" /\ pc' = "aborted"
       ELSE IF /\ generator = PlanArtifacts
               /\ \E k \in 1..Len(records) : commit_from_record_fails(records[k])
       THEN error' = "TypeError" /\ pc' = "aborted"
       ELSE error' = "" /\ pc' = "loop"
    /\ UNCHANGED <<generator, inventory_file, records, classified, written,
                   commits, picks, reimpl, batches, current, i, artifactVars,
                   classifyVars, tableVars, summaryVars>>

\* one iteration of the loop over the commits: decide or decision_for and
\* row in the cherries generators, build_batches in generate_plan_artifacts.py
ClassifyRecord ==
    /\ pc = "loop"
    /\ classified < Len(records)
    /\ LET rec == records[classified + 1]
       IN  IF subscript_fails(rec, loop_keys(generator))
           THEN /\ error' = subscript_error(rec)
                /\ pc' = "aborted"
                /\ UNCHANGED classified
           ELSE /\ classified' = classified + 1
                /\ UNCHANGED <<error, pc>>
    /\ UNCHANGED <<generator, inventory_file, records, written,
                   commits, picks, reimpl, batches, current, i, artifactVars,
                   classifyVars, tableVars, summaryVars>>

\* the loop over the commits is exhausted
EndClassify ==
    /\ pc = "loop"
    /\ classified = Len(records)
    /\ pc' = "write"
    /\ UNCHANGED <<commits, picks, reimpl, batches, current, i, artifactVars,
                   classifyVars, tableVars, summaryVars, mainVars>>

\* the next output is built and written with write_text
WriteOutput ==
    /\ pc = "write"
    /\ Len(written) < Len(outputs(generator))
    /\ LET k == Len(written) + 1
           fails(rec) ==
               subscript_fails(rec,
                   output_keys(generator, k)
                   \cup (IF rec.selected
                         THEN output_keys_selected(generator, k) ELSE {}))
           bad == {n \in 1..Len(records) : fails(records[n])}
       IN  IF bad # {}
           THEN /\ error' = subscript_error(
                                records[CHOOSE n \in bad : \A m \in bad : n <= m])
                /\ pc' = "aborted"
                /\ UNCHANGED written
           ELSE /\ written' = Append(written, outputs(generator)[k])
                /\ UNCHANGED <<error, pc>>
    /\ UNCHANGED <<generator, inventory_file, records, classified,
                   commits, picks, reimpl, batches, current, i, artifactVars,
                   classifyVars, tableVars, summaryVars>>

\* main returns
Finish ==
    /\ pc = "write"
    /\ Len(written) = Len(outputs(generator))
    /\ pc' = "finished"
    /\ UNCHANGED <<commits, picks, reimpl, batches, current, i, artifactVars,
                   classifyVars, tableVars, summaryVars, mainVars>>

NextMain == ReadInventory \/ ClassifyRecord \/ EndClassify \/ WriteOutput \/ Finish

SpecMain == InitMain /\ [][NextMain]_vars

-----------------------------------------------------------------------------
(* Properties of build_batches                                             *)

RECURSIVE Members(_)
\* the member lists of the batches bs, concatenated in batch order
Members(bs) == IF bs = <<>> THEN <<>> ELSE Head(bs).commits \o Members(Tail(bs))

IsSelected(c) == c.short \in picks \cup reimpl

NoDuplicates(s) == \A a, b \in 1..Len(s) : a # b => s[a] # s[b]

IsSoloPick(c) == c.short \in picks /\ c.short \in solo_picks

\* C1: the member lists of the returned batches, concatenated in batch
\* order, are exactly the input commits whose short is in picks or reimpl,
\* in input order, and no commit occurs twice.
C1_MembersAreSelectedSubsequence ==
    pc = "done" =>
        /\ Members(batches) = SelectSeq(commits, IsSelected)
        /\ NoDuplicates(Members(batches))

\* a finished run with a skipped commit, batches of both types and a
\* PICK batch of several commits
C1_Witness ==
    /\ pc = "done"
    /\ \E k \in 1..Len(commits) : ~IsSelected(commits[k])
    /\ \E b \in 1..Len(batches) : batches[b].type = "REIMPLEMENT"
    /\ \E b \in 1..Len(batches) :
          batches[b].type = "PICK" /\ Len(batches[b].commits) >= 2

\* C2: every batch is non-empty; a PICK batch has 1 to 5 members; a batch
\* that contains a solo-flagged PICK commit has exactly 1 member; a
\* REIMPLEMENT batch has exactly 1 member.
C2_BatchSizes ==
    \A b \in 1..Len(batches) :
        LET cs == batches[b].commits IN
        /\ Len(cs) >= 1
        /\ batches[b].type \in {"PICK", "REIMPLEMENT"}
        /\ batches[b].type = "PICK" => Len(cs) \in 1..5
        /\ (\E k \in 1..Len(cs) : IsSoloPick(cs[k])) => Len(cs) = 1
        /\ batches[b].type = "REIMPLEMENT" => Len(cs) = 1

\* a finished run with a full PICK batch of 5 next to a solo PICK batch
C2_Witness ==
    /\ pc = "done"
    /\ \E b \in 1..Len(batches) :
          batches[b].type = "PICK" /\ Len(batches[b].commits) = 5
    /\ \E b \in 1..Len(batches) :
          /\ batches[b].type = "PICK"
          /\ IsSoloPick(batches[b].commits[1])

\* the inventory A(PICK), B(PICK), C(SKIP), D(PICK, solo), E(PICK),
\* F(REIMPLEMENT) of the documented example
IsExampleInput ==
    /\ Len(commits) = 6
    /\ \A k \in {1, 2, 3, 5, 6} : commits[k].short \notin solo_picks
    /\ commits[4].short \in solo_picks
    /\ picks = {commits[k].short : k \in {1, 2, 4, 5}}
    /\ reimpl = {commits[6].short}

\* C3: on the example inventory build_batches returns exactly
\* [A,B] (PICK), [D] (PICK), [E] (PICK), [F] (REIMPLEMENT).
C3_Example ==
    (pc = "done" /\ IsExampleInput) =>
        batches = << Batch("PICK", <<commits[1], commits[2]>>),
                     Batch("PICK", <<commits[4]>>),
                     Batch("PICK", <<commits[5]>>),
                     Batch("REIMPLEMENT", <<commits[6]>>) >>

\* build_batches has returned on the example inventory
C3_Witness == pc = "done" /\ IsExampleInput

\* C11: every batch is homogeneous: the members of a PICK batch have their
\* short in picks; the member of a REIMPLEMENT batch has its short in reimpl
\* and not in picks.
C11_Homogeneous ==
    \A b \in 1..Len(batches) :
        LET cs == batches[b].commits IN
        /\ batches[b].type = "PICK" =>
              \A k \in 1..Len(cs) : cs[k].short \in picks
        /\ batches[b].type = "REIMPLEMENT" =>
              \A k \in 1..Len(cs) : cs[k].short \in reimpl /\ cs[k].short \notin picks

\* a finished run with a REIMPLEMENT batch, and a PICK batch holding a
\* commit that the tables list in picks and in reimpl
C11_Witness ==
    /\ pc = "done"
    /\ \E b \in 1..Len(batches) : batches[b].type = "REIMPLEMENT"
    /\ \E b \in 1..Len(batches) :
          /\ batches[b].type = "PICK"
          /\ Len(batches[b].commits) >= 2
          /\ \E k \in 1..Len(batches[b].commits) :
                batches[b].commits[k].short \in picks \cap reimpl

\* the batches that hold the commit with this short id
BatchesOf(short) ==
    {b \in 1..Len(batches) :
        \E k \in 1..Len(batches[b].commits) : batches[b].commits[k].short = short}

\* candidate ids for dead configuration: a solo id that no explored
\* inventory holds, a solo id and a plain id that some inventories hold
DeadCandidates == {"23e52f0f", "3a1d3769", "d38ab079"}

\* the candidates that match no commit of the loaded inventory
DeadIds == DeadCandidates \ ShortsOf(commits)

\* the solo set with the listing of the ids of D inverted
ToggleSolo(D) == (solo_picks \ D) \cup (D \ solo_picks)

\* adding ids that match no inventory commit to picks and to reimpl, and
\* adding them to or removing them from the solo set, leaves the result of
\* build_batches as it is
DeadIdsHaveNoEffect ==
    pc = "done" =>
        /\ \A d \in DeadIds : \A inPicks, inReimpl, inSolo \in BOOLEAN :
              build_batches_with(commits,
                                 IF inPicks THEN picks \cup {d} ELSE picks,
                                 IF inReimpl THEN reimpl \cup {d} ELSE reimpl,
                                 IF inSolo THEN ToggleSolo({d}) ELSE solo_picks)
                  = batches
        /\ build_batches_with(commits, picks \cup DeadIds, reimpl \cup DeadIds,
                              ToggleSolo(DeadIds)) = batches

\* the solo ids of the inventory that are not in picks
UnpickedSolos == {s \in ShortsOf(commits) \cap solo_picks : s \notin picks}

\* C18 as stated: dead ids have no effect on the result of build_batches,
\* and a solo id that is not in picks is in no batch.
C18_DeadIdsAndUnpickedSolos ==
    /\ DeadIdsHaveNoEffect
    /\ pc = "done" => \A s \in UnpickedSolos : BatchesOf(s) = {}

\* C18, amended: dead ids have no effect on the result of build_batches,
\* and a solo id that is not in picks is in no PICK batch; it is in a batch
\* exactly when it is in reimpl, and that batch is a REIMPLEMENT batch.
C18_DeadIdsAndUnpickedSolosAmended ==
    /\ DeadIdsHaveNoEffect
    /\ pc = "done" =>
          \A s \in UnpickedSolos :
              /\ \A b \in BatchesOf(s) : batches[b].type = "REIMPLEMENT"
              /\ BatchesOf(s) # {} <=> s \in reimpl

\* build_batches has returned several batches, one of them of a picked solo
\* commit, for an inventory that lacks two of the candidates and holds a
\* solo commit that is reimplemented and not picked
C18_Witness ==
    /\ pc = "done"
    /\ Cardinality(DeadIds) >= 2
    /\ Len(batches) >= 3
    /\ \E k \in 1..Len(commits) : IsSoloPick(commits[k])
    /\ UnpickedSolos \cap reimpl # {}

\* the inventory without the commits at the positions D
WithoutPositions(D) ==
    LET keep == {k \in 1..Len(commits) : k \notin D}
        F[k \in 0..Len(commits)] ==
            IF k = 0 THEN <<>>
            ELSE IF k \in keep THEN Append(F[k - 1], commits[k]) ELSE F[k - 1]
    IN  F[Len(commits)]

\* the positions of the commits that are in neither picks nor reimpl
SkipPositions == {k \in 1..Len(commits) : ~IsSelected(commits[k])}

\* C20: deleting any subset of the commits that are in neither picks nor
\* reimpl from the input leaves the result of build_batches unchanged; a
\* skipped commit between two plain PICK commits leaves them in one group.
C20_SkipsInvisible ==
    pc = "done" =>
        /\ \A D \in SUBSET SkipPositions :
              build_batches(WithoutPositions(D), picks, reimpl) = batches
        /\ \A k \in 2..(Len(commits) - 1) :
              (/\ k \in SkipPositions
               /\ commits[k - 1].short \in picks \ solo_picks
               /\ commits[k + 1].short \in picks \ solo_picks
               /\ \A b \in BatchesOf(commits[k - 1].short) :
                      Len(batches[b].commits) < 5)
              => BatchesOf(commits[k - 1].short) = BatchesOf(commits[k + 1].short)

\* build_batches has returned for an inventory with two skipped commits,
\* one of them between two plain PICK commits that share a batch
C20_Witness ==
    /\ pc = "done"
    /\ Cardinality(SkipPositions) >= 2
    /\ \E k \in 2..(Len(commits) - 1) :
          /\ k \in SkipPositions
          /\ commits[k - 1].short \in picks \ solo_picks
          /\ commits[k + 1].short \in picks \ solo_picks
          /\ BatchesOf(commits[k - 1].short) = BatchesOf(commits[k + 1].short)

\* C22: build_batches leaves its inputs as they were: no step of the call
\* changes the commit sequence, a commit record, picks or reimpl, and a
\* batch that has been appended to the result stays as it was appended.
C22_InputsUnmodified ==
    [][pc = "loop" =>
          /\ commits' = commits
          /\ picks' = picks
          /\ reimpl' = reimpl
          /\ Len(batches') >= Len(batches)
          /\ SubSeq(batches', 1, Len(batches)) = batches]_vars

\* build_batches has returned after appending a full group of five commits
\* and processing a further PICK commit
C22_Witness ==
    /\ pc = "done"
    /\ Len(batches) >= 2
    /\ Len(batches[1].commits) = 5
    /\ batches[2].type = "PICK"
    /\ batches[2].commits[1].short \notin solo_picks

\* the position of the commit with this short id in the inventory
PositionOf(short) == CHOOSE k \in 1..Len(commits) : commits[k].short = short

\* the positions after p of the commits that are in picks or in reimpl
SelectedAfter(p) == {k \in (p + 1)..Len(commits) : IsSelected(commits[k])}

\* a PICK batch none of whose members is a solo commit
IsPlainPickBatch(batch) ==
    /\ batch.type = "PICK"
    /\ \A k \in 1..Len(batch.commits) : batch.commits[k].short \notin solo_picks

\* C23: a PICK batch of fewer than 5 commits without a solo commit is
\* followed, among the commits that are not skipped, by a solo PICK commit,
\* by a REIMPLEMENT commit or by nothing; of two consecutive PICK batches
\* without solo commits the first has exactly 5 members.
C23_BoundariesOnlyWhereRequired ==
    pc = "done" =>
        /\ \A b \in 1..Len(batches) :
              (IsPlainPickBatch(batches[b]) /\ Len(batches[b].commits) < 5) =>
                  LET last == PositionOf(
                                  batches[b].commits[Len(batches[b].commits)].short)
                      after == SelectedAfter(last)
                  IN  after # {} =>
                          LET next == commits[CHOOSE k \in after :
                                                  \A m \in after : k <= m]
                          IN  \/ IsSoloPick(next)
                              \/ (next.short \in reimpl /\ next.short \notin picks)
        /\ \A b \in 1..(Len(batches) - 1) :
              (IsPlainPickBatch(batches[b]) /\ IsPlainPickBatch(batches[b + 1]))
                  => Len(batches[b].commits) = 5

\* build_batches has returned a short plain PICK batch that a solo PICK
\* commit closed, another that a REIMPLEMENT commit closed after a skipped
\* commit, and a last one closed by the end of the input
C23_Witness ==
    /\ pc = "done"
    /\ \E b \in 1..(Len(batches) - 1) :
          /\ IsPlainPickBatch(batches[b])
          /\ Len(batches[b].commits) < 5
          /\ IsSoloPick(batches[b + 1].commits[1])
    /\ \E b \in 1..(Len(batches) - 1) :
          /\ IsPlainPickBatch(batches[b])
          /\ batches[b + 1].type = "REIMPLEMENT"
    /\ IsPlainPickBatch(batches[Len(batches)])

\* the commits of the inventory processed so far that are in picks or in
\* reimpl and in no emitted batch, in input order
PendingSelected ==
    SelectSeq(SubSeq(commits, 1, i),
              LAMBDA c : IsSelected(c) /\ BatchesOf(c.short) = {})

\* C24: in the pass of build_batches, after each commit the open group
\* holds 0 to 4 commits, all plain PICK commits in no emitted batch, and
\* they are the commits seen since the last emitted batch that are not
\* skipped; after a solo PICK or a REIMPLEMENT commit the group is empty.
C24_OpenGroup ==
    pc = "loop" =>
        /\ Len(current) \in 0..4
        /\ \A k \in 1..Len(current) :
              /\ current[k].short \in picks
              /\ current[k].short \notin solo_picks
              /\ BatchesOf(current[k].short) = {}
        /\ current = PendingSelected
        /\ Len(batches) > 0 =>
              LET lastBatch == batches[Len(batches)]
                  last == PositionOf(lastBatch.commits[Len(lastBatch.commits)].short)
              IN  current = SelectSeq(SubSeq(commits, last + 1, i),
                                      LAMBDA c : IsSelected(c))
        /\ (i > 0 /\ (IsSoloPick(commits[i])
                      \/ (commits[i].short \in reimpl
                          /\ commits[i].short \notin picks)))
              => current = <<>>

\* the pass stands after a REIMPLEMENT commit with an empty group, having
\* emitted an open group of several commits before it
C24_Witness ==
    /\ pc = "loop"
    /\ i >= 3
    /\ commits[i].short \in reimpl \ picks
    /\ current = <<>>
    /\ Len(batches) >= 2
    /\ Len(batches[Len(batches) - 1].commits) >= 2

-----------------------------------------------------------------------------
(* Properties of the generated plan artifacts                              *)

PlanWritten == pc \in {"plan", "progress", "notes", "audit", "playbooks"}

ProgressWritten == pc \in {"progress", "notes", "audit", "playbooks"}

AuditWritten == pc \in {"audit", "playbooks"}

\* the two-character number of entry k, for k below 100
TwoDigits(k) == <<DigitChars[(k \div 10) + 1], DigitChars[(k % 10) + 1]>>

\* the short ids of the members of batch b, in member order
BatchShorts(b) == [k \in 1..Len(batches[b].commits) |-> batches[b].commits[k].short]

\* C12: the batch schedule of PLAN and the checklist of PROGRESS hold one
\* entry per batch, in batch order, numbered 01..N, each listing the short
\* ids of its batch once and in member order; the progress total is N.
C12_OneEntryPerBatch ==
    /\ PlanWritten =>
          /\ Len(plan_rows) = Len(batches)
          /\ \A k \in 1..Len(plan_rows) :
                /\ plan_rows[k].batch = TwoDigits(k)
                /\ plan_rows[k].shas = BatchShorts(k)
                /\ NoDuplicates(plan_rows[k].shas)
    /\ ProgressWritten =>
          /\ Len(progress_rows) = Len(batches)
          /\ progress_total = Len(batches)
          /\ \A k \in 1..Len(progress_rows) :
                /\ progress_rows[k].batch = TwoDigits(k)
                /\ progress_rows[k].shas = BatchShorts(k)
                /\ NoDuplicates(progress_rows[k].shas)

\* PLAN and PROGRESS are written for at least three batches, among them a
\* PICK batch of several commits and a REIMPLEMENT batch
C12_Witness ==
    /\ pc = "progress"
    /\ Len(batches) >= 3
    /\ \E b \in 1..Len(batches) : Len(batches[b].commits) >= 2
    /\ \E b \in 1..Len(batches) : batches[b].type = "REIMPLEMENT"

\* C13: batch k is marked FULL exactly when k is even and QUICK otherwise,
\* in PLAN and in PROGRESS alike, so that neighbouring batches differ.
C13_VerifyAlternates ==
    /\ PlanWritten =>
          \A k \in 1..Len(plan_rows) :
              /\ plan_rows[k].verify \in {"FULL", "QUICK"}
              /\ plan_rows[k].verify = "FULL" <=> k % 2 = 0
              /\ k > 1 => plan_rows[k].verify # plan_rows[k - 1].verify
    /\ ProgressWritten =>
          \A k \in 1..Len(progress_rows) :
              /\ progress_rows[k].verify \in {"FULL", "QUICK"}
              /\ progress_rows[k].verify = "FULL" <=> k % 2 = 0
              /\ progress_rows[k].verify = plan_rows[k].verify

\* PLAN and PROGRESS are written for at least four batches
C13_Witness == pc = "progress" /\ Len(batches) >= 4

\* the playbook paths that the REIMPLEMENT rows of PLAN refer to
ReferencedPlaybooks ==
    {plan_rows[k].cmd.args[1] :
        k \in {j \in 1..Len(plan_rows) : plan_rows[j].type = "REIMPLEMENT"}}

\* C15: the playbook files written are exactly the playbook paths that the
\* REIMPLEMENT batches of the plan refer to, each written once, for any
\* picks/reimpl tables.
C15_PlaybooksMatchPlan ==
    pc = "playbooks" =>
        /\ {playbooks[k] : k \in 1..Len(playbooks)} = ReferencedPlaybooks
        /\ NoDuplicates(playbooks)

\* C16: the audit table has one row per inventory commit, in input order,
\* with its 1-based position; its decision is PICK if the short is in
\* picks, else REIMPLEMENT if in reimpl, else SKIP, which is what
\* decision_for computes from PICKS and REIMPL, and is the type of the batch
\* that holds the commit (no batch for SKIP); status, local and notes are
\* empty.
C16_AuditRows ==
    /\ AuditWritten =>
          /\ Len(audit_rows) = Len(commits)
          /\ \A k \in 1..Len(audit_rows) :
                LET row == audit_rows[k]
                    short == commits[k].short
                IN  /\ row.idx = (IF k < 10 THEN <<DigitChars[k + 1]>>
                                  ELSE TwoDigits(k))
                    /\ row.upstream = short
                    /\ row.decision \in Decision
                    /\ row.decision = "PICK" <=> short \in picks
                    /\ row.decision = "REIMPLEMENT" <=>
                          (short \in reimpl /\ short \notin picks)
                    /\ row.decision = "SKIP" <=> BatchesOf(short) = {}
                    /\ \A b \in BatchesOf(short) : batches[b].type = row.decision
                    /\ row.status = "" /\ row.local = "" /\ row.notes = ""
    /\ \A short \in PICKS \cup REIMPL \cup ClassifiedShorts :
          audit_decision(short, PICKS, REIMPL) = decision_for(short)

\* the audit table is written for an inventory with a skipped commit, a
\* REIMPLEMENT commit and a commit that is in picks and in reimpl
C16_Witness ==
    /\ pc = "audit"
    /\ \E k \in 1..Len(audit_rows) : audit_rows[k].decision = "SKIP"
    /\ \E k \in 1..Len(audit_rows) : audit_rows[k].decision = "REIMPLEMENT"
    /\ \E k \in 1..Len(audit_rows) :
          /\ audit_rows[k].decision = "PICK"
          /\ commits[k].short \in picks \cap reimpl

-----------------------------------------------------------------------------
(* Properties of the classifiers                                           *)

Decided == "decide" \in called

InOverrides == cur_commit.short \in DOMAIN OVERRIDES

LowSubject == lower(cur_commit.subject)

TelemetryRationale == "Touches ClearcutLogger (removed in llxprt)"
DefaultRationale == "Not selected for llxprt (low value or conflicts)"

\* the subject matches the release/versioning rule
MatchesRelease ==
    \/ startswith(LowSubject, LitChoreRelease)
    \/ startswith(LowSubject, LitFixPatch)
    \/ contains(LitPreReleases, LowSubject)

\* the subject matches the revert rule
MatchesRevert == startswith(LowSubject, LitRevert)

\* the subject matches the model-routing/fallback topic rule
MatchesRouting ==
    contains(LitModelRouting, LowSubject) \/ contains(LitFallback, LowSubject)

\* the subject matches one of the rules that follow the single-area rules
MatchesLateSubjectRule ==
    \/ MatchesRouting
    \/ contains(LitCodebaseInvestigator, LowSubject)
    \/ contains(LitCleanupMarkdown, LowSubject)
    \/ contains(LitA2a, LowSubject) /\ contains(LitPublish, LowSubject)

\* some path of the commit contains "clearcut-logger"
TouchesTelemetry ==
    \E k \in 1..Len(cur_commit.files) :
        contains(LitClearcutLogger, cur_commit.files[k])

\* the single-area rule for tag: areas is exactly {tag}
OnlyArea(tag) == AreaSet(cur_commit) = {tag}

\* C4: for a commit whose short is a key of OVERRIDES, decide returns that
\* key's table entry unchanged, whatever subject, files and areas are.
C4_OverrideVerbatim ==
    (Decided /\ InOverrides) =>
        /\ cur_override = OVERRIDES[cur_commit.short]
        /\ \E k \in 1..Len(OverridesSource) :
              OverridesSource[k] = <<cur_commit.short, cur_override>>

\* decide has returned a PICK override for a commit that touches the
\* telemetry logger, has a revert subject and is docs only
C4_Witness ==
    /\ Decided
    /\ InOverrides
    /\ cur_override.decision = "PICK"
    /\ TouchesTelemetry
    /\ MatchesRevert
    /\ OnlyArea("docs")

\* C5: a commit that is not in OVERRIDES and has a path containing
\* "clearcut-logger" is SKIP with the telemetry rationale, for every
\* subject and every areas value.
C5_TelemetrySkip ==
    (Decided /\ ~InOverrides /\ TouchesTelemetry) =>
        cur_override = Override("SKIP", TelemetryRationale)

\* decide has returned for a telemetry-touching commit outside OVERRIDES
\* whose subject matches the release rule and whose areas are docs only
C5_Witness ==
    /\ Decided
    /\ ~InOverrides
    /\ TouchesTelemetry
    /\ MatchesRelease
    /\ OnlyArea("docs")

\* the outcome of the earliest matching rule, in the documented order, with
\* the single-area rule matching an areas set that is exactly one tag
EarliestRuleOutcome ==
    IF TouchesTelemetry THEN Override("SKIP", TelemetryRationale)
    ELSE IF MatchesRelease THEN Override("SKIP", "Upstream release/versioning")
    ELSE IF MatchesRevert
    THEN Override("SKIP", "Upstream revert (skip unless original was picked)")
    ELSE IF OnlyArea("docs") THEN Override("SKIP", "Docs only")
    ELSE IF OnlyArea("github") THEN Override("SKIP", "CI/workflow only")
    ELSE IF OnlyArea("integration-tests")
    THEN Override("SKIP", "Upstream integration tests only")
    ELSE IF MatchesRouting
    THEN Override("SKIP", "Model routing/fallback not used in llxprt")
    ELSE IF contains(LitCodebaseInvestigator, LowSubject)
    THEN Override("SKIP", "CodebaseInvestigator disabled in llxprt")
    ELSE IF contains(LitCleanupMarkdown, LowSubject)
    THEN Override("SKIP", "Docs/format churn")
    ELSE IF contains(LitA2a, LowSubject) /\ contains(LitPublish, LowSubject)
    THEN Override("SKIP", "A2A publishing/release process")
    ELSE Override("SKIP", DefaultRationale)

\* C6: for a commit that is not in OVERRIDES decide returns the outcome of
\* the earliest matching rule in the order telemetry path, release, revert,
\* single area (docs, github, integration-tests), topic keywords,
\* markdown cleanup, a2a publishing, default.
C6_EarliestRuleWins ==
    (Decided /\ ~InOverrides) => cur_override = EarliestRuleOutcome

\* C7: a commit outside OVERRIDES with empty files and empty areas whose
\* subject matches no subject rule is SKIP with the default rationale.
C7_EmptyCommitDefault ==
    ( /\ Decided
      /\ ~InOverrides
      /\ cur_commit.files = <<>>
      /\ cur_commit.areas = <<>>
      /\ ~MatchesRelease
      /\ ~MatchesRevert
      /\ ~MatchesLateSubjectRule )
    => cur_override = Override("SKIP", DefaultRationale)

\* the case of C8: no override, no telemetry path, areas exactly {"docs"}
DocsOnlyCase ==
    /\ Decided
    /\ ~InOverrides
    /\ ~TouchesTelemetry
    /\ OnlyArea("docs")

\* C8 as stated: in the docs-only case decide returns SKIP with the
\* rationale "Docs only" for every subject.
C8_DocsOnlyEverySubject ==
    DocsOnlyCase => cur_override = Override("SKIP", "Docs only")

\* C8 amended: in the docs-only case decide returns SKIP for every subject,
\* with the rationale "Docs only" unless the subject matches the release
\* or the revert rule, which come first and give their own rationale.
C8_DocsOnlyAfterReleaseRevert ==
    DocsOnlyCase =>
        /\ cur_override.decision = "SKIP"
        /\ (~MatchesRelease /\ ~MatchesRevert)
              => cur_override.rationale = "Docs only"
        /\ MatchesRelease
              => cur_override.rationale = "Upstream release/versioning"
        /\ (~MatchesRelease /\ MatchesRevert)
              => cur_override.rationale =
                    "Upstream revert (skip unless original was picked)"

\* decide has returned in the docs-only case for a subject that matches a
\* topic keyword rule
C8_Witness == DocsOnlyCase /\ MatchesRouting /\ ~MatchesRelease /\ ~MatchesRevert

\* C9: every classification yields one (decision, rationale) pair whose
\* decision is PICK, SKIP or REIMPLEMENT: the result of decide, every entry
\* of OVERRIDES, and the result of decision_for.
C9_Total ==
    /\ Decided =>
          /\ DOMAIN cur_override = {"decision", "rationale"}
          /\ cur_override.decision \in Decision
    /\ "decision_for" \in called => cur_decision \in Decision
    /\ \A key \in DOMAIN OVERRIDES : OVERRIDES[key].decision \in Decision

\* both classifiers have returned for a commit with no files, no areas and
\* a subject that matches no rule, which is in none of the tables
C9_Witness ==
    /\ called = {"decide", "decision_for"}
    /\ ~InOverrides
    /\ cur_commit.short \notin PICKS \cup REIMPL
    /\ cur_commit.files = <<>>
    /\ cur_commit.areas = <<>>
    /\ cur_commit.subject = SubjWidget


\* the positions at which the source of OVERRIDES lists this key
Listings(key) == {k \in 1..Len(OverridesSource) : OverridesSource[k][1] = key}

\* the keys that the source of OVERRIDES lists more than once
KeysListedTwice == {key \in OverrideKeys : Cardinality(Listings(key)) > 1}

\* overrides that an earlier listing could have held instead
OtherOverrides ==
    {Override(d, "another rationale") : d \in Decision}

\* C19: OVERRIDES holds one override per key; for a key that the source
\* lists twice, decide returns the entry listed last, whatever an earlier
\* listing holds.
C19_LastListingWins ==
    /\ DOMAIN OVERRIDES = OverrideKeys
    /\ \A key \in KeysListedTwice :
          LET last == CHOOSE k \in Listings(key) : \A m \in Listings(key) : m <= k
          IN  /\ OVERRIDES[key] = OverridesSource[last][2]
              /\ (Decided /\ cur_commit.short = key) =>
                    /\ cur_override = OverridesSource[last][2]
                    /\ \A k \in Listings(key) \ {last} : \A o \in OtherOverrides :
                          dict_lookup([OverridesSource EXCEPT ![k] = <<key, o>>],
                                      key) = cur_override

\* decide has classified a commit whose short the source lists twice and
\* whose files touch the logger that the later rule skips
C19_Witness ==
    /\ Decided
    /\ cur_commit.short \in KeysListedTwice
    /\ touches_clearcut(cur_commit.files)
    /\ cur_override.decision = "PICK"

\* C25: PICK and REIMPLEMENT come from OVERRIDES alone: decide returns SKIP
\* for every commit whose short is no key of OVERRIDES, whatever its
\* subject, files and areas.
C25_OnlyOverridesSelect ==
    Decided =>
        /\ cur_commit.short \notin OverrideKeys => cur_override.decision = "SKIP"
        /\ cur_override.decision \in {"PICK", "REIMPLEMENT"} =>
              /\ cur_commit.short \in OverrideKeys
              /\ cur_override = OVERRIDES[cur_commit.short]

\* decide has returned for a commit that is no key of OVERRIDES, that has
\* files and areas, and whose subject and areas match no rule
C25_Witness ==
    /\ Decided
    /\ cur_commit.short \notin OverrideKeys
    /\ cur_commit.files # <<>>
    /\ cur_commit.areas # <<>>
    /\ cur_override = Override("SKIP", DefaultRationale)

-----------------------------------------------------------------------------
(* Properties of the 20260104 summary                                      *)

\* the short ids of the commits of the inventory with this decision, in
\* input order
ShortsDecided(decision) ==
    LET sel == SelectSeq(commits, LAMBDA c : decision_for(c.short) = decision)
    IN  [k \in 1..Len(sel) |-> sel[k].short]

\* C14: SUMMARY.md lists every PICK commit and every REIMPLEMENT commit of
\* the inventory exactly once, in input order, however many there are.
C14_SummaryListsAll ==
    pc = "summary" =>
        /\ summary_lines.picks = ShortsDecided("PICK")
        /\ summary_lines.reimpl = ShortsDecided("REIMPLEMENT")

\* the rows of a section carry increasing inventory positions
InInputOrder(section) ==
    \A a \in 1..(Len(section) - 1) : section[a].idx < section[a + 1].idx

\* every row of the section is the row of the inventory commit at the
\* position it carries, and that commit belongs in the section
RowsBelong(section, name) ==
    \A k \in 1..Len(section) :
        LET row == section[k] IN
        /\ row.idx \in 1..Len(commits)
        /\ row.short = commits[row.idx].short
        /\ row.decision = name
        /\ decision_for(row.short) = name
        /\ name = (IF row.short \in PICKS THEN "PICK"
                   ELSE IF row.short \in REIMPL THEN "REIMPLEMENT"
                   ELSE "SKIP")

\* C26: every inventory commit has exactly one row in CHERRIES.md, in the
\* section that decision_for gives its short: PICK if in PICKS, else
\* REIMPLEMENT if in REIMPL, else SKIP whether or not SKIPS lists it; the
\* rows of a section are in input order and carry the 1-based inventory
\* position, and the three counts of the header sum to the number of
\* commits.  (Rows that belong, in increasing positions, as many as there
\* are commits: each commit has one row and no more.)
C26_OneRowInItsSection ==
    pc \in {"rows", "cherries", "summary"} =>
        /\ Len(pick_rows) + Len(reimpl_rows) + Len(skip_rows) = Len(commits)
        /\ RowsBelong(pick_rows, "PICK")
        /\ RowsBelong(reimpl_rows, "REIMPLEMENT")
        /\ RowsBelong(skip_rows, "SKIP")
        /\ InInputOrder(pick_rows)
        /\ InInputOrder(reimpl_rows)
        /\ InInputOrder(skip_rows)
        /\ counts = <<Len(pick_rows), Len(reimpl_rows), Len(skip_rows)>>
        /\ counts[1] + counts[2] + counts[3] = Len(commits)

\* CHERRIES.md is written with rows in its three sections, a REIMPLEMENT
\* commit standing before a PICK commit and the SKIP section holding a
\* commit that SKIPS does not list
C26_Witness ==
    /\ pc = "cherries"
    /\ Len(pick_rows) >= 2
    /\ \E k \in 1..Len(reimpl_rows) : reimpl_rows[k].idx < pick_rows[Len(pick_rows)].idx
    /\ \E k \in 1..Len(skip_rows) : skip_rows[k].short \notin SKIPS

-----------------------------------------------------------------------------
(* Properties of the runs of main                                          *)

\* the inventory cannot be loaded: the file is missing or is no JSON, or a
\* record cannot be turned into a Commit by the script that does so
LoadFails ==
    \/ inventory_file # "ok"
    \/ /\ generator = PlanArtifacts
       /\ \E k \in 1..Len(records) :
             ~records[k].dict \/ records[k].keys # CommitFields

\* C17: a run that fails to load the inventory aborts with no output file
\* written; in each main no file is written before the inventory is read,
\* parsed and, in the cherries generators, classified to its last record.
C17_AbortBeforeAnyWrite ==
    /\ error # "" => pc = "aborted" /\ written = <<>>
    /\ written # <<>> =>
          /\ inventory_file = "ok"
          /\ classified = Len(records)
          /\ ~LoadFails
    /\ (LoadFails /\ pc # "start") => pc = "aborted" /\ written = <<>>

\* a run has aborted on the second record of a readable inventory, after
\* the first one was classified
C17_Witness ==
    /\ pc = "aborted"
    /\ inventory_file = "ok"
    /\ Len(records) = 2
    /\ classified = 1
    /\ error = "KeyError"
    /\ written = <<>>

-----------------------------------------------------------------------------
(* Properties of the 20251215 decision table                               *)

\* the number of table rows with this decision
RowsWith(decision) ==
    Cardinality({k \in 1..Len(lines) : lines[k].decision = decision})

\* C21: the full table of CHERRIES.md has one row per inventory commit, in
\* input order, numbered by its 1-based position and carrying the decision
\* and rationale that decide returns for the commit; each count of the
\* header is the number of rows with that decision, and the counts sum to
\* the number of commits.
C21_FullTable ==
    pc \in {"lines", "table", "summary"} =>
        /\ Len(lines) = Len(commits)
        /\ \A k \in 1..Len(lines) :
              /\ lines[k].idx = <<DigitChars[k + 1]>>
              /\ lines[k].short = commits[k].short
              /\ lines[k].decision = decide(commits[k]).decision
              /\ lines[k].rationale = decide(commits[k]).rationale
        /\ \A d \in Decision : counts[d] = RowsWith(d)
        /\ counts["PICK"] + counts["REIMPLEMENT"] + counts["SKIP"] = Len(commits)

\* CHERRIES.md is written for three commits with three different decisions,
\* the SKIP one first
C21_Witness ==
    /\ pc = "table"
    /\ Len(lines) = 3
    /\ lines[1].decision = "SKIP"
    /\ \A d \in Decision : RowsWith(d) = 1

=============================================================================
